---- MODULE Spec2Model ----
(***************************************************************************)
(* Pure-JS-3D-Renderer: the Renderer3D engine of "3d_renderer main.js"     *)
(* (Vector3, Matrix4, Shapes, Renderer3D) as a state machine.              *)
(*                                                                         *)
(* Numbers.  JavaScript numbers are modelled by integers.  Every quantity  *)
(* the engine computes from integer inputs with quarter-turn rotation      *)
(* angles is an integer, so the matrix and vector arithmetic is exact.     *)
(* Three kinds of value are not integers and are represented exactly by    *)
(* integers all the same:                                                  *)
(*   - an angle in radians is represented by its count of degrees          *)
(*     (r = d * PI / 180);                                                 *)
(*   - an edge depth (z1 + z2) / 2 is represented by the sum z1 + z2       *)
(*     (field depth2, twice the depth);                                    *)
(*   - a projected coordinate x * f / (f + z) is represented by the pair   *)
(*     numerator, denominator (no division is carried out; JavaScript      *)
(*     does not raise on a zero denominator either).                       *)
(* The generators that place vertices with Math.sqrt / Math.cos / Math.sin *)
(* (prism, dodecahedron, torus, sphere) get their coordinates rounded to   *)
(* the nearest integer.                                                    *)
(*                                                                         *)
(* Indices.  JavaScript arrays are 0-based, TLA+ sequences 1-based: edge   *)
(* and face lists keep the source's 0-based vertex indices, and At0(s, i)  *)
(* reads element i of the array s.                                         *)
(***************************************************************************)
EXTENDS Integers, Sequences, FiniteSets, TLC

(***************************************************************************)
(* Bounds of the model                                                     *)
(***************************************************************************)
\* largest segment / division count handed to torus, sphere and grid
MaxSegments == 2

\* most frames the auto-rotation advances between two resets
MaxAutoFrames == 1

\* largest segment and division count of the generated meshes
MaxRing == 5

\* largest number of Matrix4 objects a caller holds at a time
MaxMatrices == 2

(***************************************************************************)
(* JavaScript values                                                       *)
(***************************************************************************)
\* arr[i] of a JavaScript array: undefined outside the array, never an error
Undefined == [undefined |-> TRUE]

At0(s, i) == IF i >= 0 /\ i < Len(s) THEN s[i + 1] ELSE Undefined

\* an array given by its elements, as a sequence
Array(f) == << >> \o f

\* Array.prototype.map
Map(s, F(_)) == Array([k \in 1..Len(s) |-> F(s[k])])

\* Math.round(n / d) for d > 0 (halves round towards +Infinity)
RoundDiv(n, d) == (2 * n + d) \div (2 * d)

\* Math.min and Math.max
Min(a, b) == IF a < b THEN a ELSE b

Max(a, b) == IF a > b THEN a ELSE b

\* a positional argument list's k-th argument, or the parameter's default
Arg(args, k, default) == IF Len(args) >= k THEN args[k] ELSE default

(***************************************************************************)
(* Vector3                                                                 *)
(***************************************************************************)
Vector3(x, y, z) == [x |-> x, y |-> y, z |-> z]

(***************************************************************************)
(* Vector3.normalize in double precision.  A number is m * 2^e / sqrt(root)*)
(* for integers m, e and root >= 1: a double with a short mantissa when    *)
(* root = 1, and the quotient by an irrational square root otherwise (the  *)
(* rounding of that quotient, at most one unit in the last place, is not   *)
(* modelled).  Products and sums are rounded to the range of the doubles:  *)
(* below half the smallest subnormal they are 0, above the largest double  *)
(* they are Infinity.                                                      *)
(***************************************************************************)
\* the doubles are the multiples of 2^MinExp below 2^(MaxExp + 1)
MinExp == -1074

MaxExp == 1023

Double(m, e) == [m |-> m, e |-> IF m = 0 THEN 0 ELSE e, root |-> 1]

Infinity == [m |-> 1, e |-> MaxExp + 1, root |-> 1]

IsInfinity(x) == x.e > MaxExp

RECURSIVE Pow2(_)
Pow2(k) == IF k = 0 THEN 1 ELSE 2 * Pow2(k - 1)

\* the exponent of the leading bit of a positive integer
RECURSIVE Log2(_)
Log2(n) == IF n < 2 THEN 0 ELSE 1 + Log2(n \div 2)

\* n / d rounded to the nearest integer, a tie to the even one
RoundHalfEven(n, d) ==
    LET q == n \div d
        r == n % d
    IN  IF 2 * r > d \/ (2 * r = d /\ q % 2 = 1) THEN q + 1 ELSE q

\* the double nearest to m * 2^e, m >= 0
RoundToDouble(m, e) ==
    IF m = 0 THEN Double(0, 0)
    ELSE IF Log2(m) + e > MaxExp THEN Infinity
    ELSE IF e >= MinExp THEN Double(m, e)
    ELSE IF MinExp - e > Log2(m) + 1 THEN Double(0, 0)
    ELSE Double(RoundHalfEven(m, Pow2(MinExp - e)), MinExp)

\* x * x for a double x
Square(x) == RoundToDouble(x.m * x.m, 2 * x.e)

\* x + y for doubles x, y >= 0
Sum(x, y) ==
    IF IsInfinity(x) \/ IsInfinity(y) THEN Infinity
    ELSE IF x.m = 0 THEN y
    ELSE IF y.m = 0 THEN x
    ELSE LET e == Min(x.e, y.e)
         IN  RoundToDouble(x.m * Pow2(x.e - e) + y.m * Pow2(y.e - e), e)

\* the root of a perfect square, or 0
ExactRoot(n) ==
    IF \E r \in 1..n : r * r = n THEN CHOOSE r \in 1..n : r * r = n ELSE 0

\* Math.sqrt(x) for a double x >= 0: sqrt(n * 2^(2 h)) = sqrt(n) * 2^h
MathSqrt(x) ==
    IF IsInfinity(x) \/ x.m = 0 THEN x
    ELSE LET n == IF x.e % 2 = 0 THEN x.m ELSE 2 * x.m
             h == IF x.e % 2 = 0 THEN x.e \div 2 ELSE (x.e - 1) \div 2
         IN  IF ExactRoot(n) # 0 THEN Double(ExactRoot(n), h)
             ELSE [m |-> n, e |-> h, root |-> n]

\* Math.sqrt(this.x * this.x + this.y * this.y + this.z * this.z)
magnitude(v) == MathSqrt(Sum(Sum(Square(v.x), Square(v.y)), Square(v.z)))

\* 1 / mag for a magnitude mag > 0, which is m * 2^e / sqrt(root) with
\* root = 1 or root = m; 1 / Infinity is 0
Reciprocal(mag) ==
    IF IsInfinity(mag) THEN Double(0, 0)
    ELSE [m |-> 1, e |-> -mag.e, root |-> (mag.m * mag.m) \div mag.root]

\* x * s for a double x and the reciprocal s of a magnitude
Times(x, s) ==
    IF x.m = 0 \/ s.m = 0 THEN Double(0, 0)
    ELSE [m |-> x.m * s.m, e |-> x.e + s.e, root |-> s.root]

\* Vector3.scale
Vector3Scale(v, s) == Vector3(Times(v.x, s), Times(v.y, s), Times(v.z, s))

\* Vector3.normalize
normalize(v) ==
    LET mag == magnitude(v)
    IN  IF mag.m = 0 THEN Vector3(Double(0, 0), Double(0, 0), Double(0, 0))
        ELSE Vector3Scale(v, Reciprocal(mag))

(***************************************************************************)
(* Matrix4: elements is the 16-element array, element k at position k + 1  *)
(***************************************************************************)
_identity == << 1, 0, 0, 0,
                0, 1, 0, 0,
                0, 0, 1, 0,
                0, 0, 0, 1 >>

\* m.elements[k] = v
SetEl(m, k, v) == [m EXCEPT ![k + 1] = v]

El(m, k) == m[k + 1]

\* mutant of Product: row i of a times row j of b
ProductRowByRow(a, b, i, j) ==
    a[i * 4 + 1] * b[j * 4 + 1] + a[i * 4 + 2] * b[j * 4 + 2] +
    a[i * 4 + 3] * b[j * 4 + 3] + a[i * 4 + 4] * b[j * 4 + 4]

\* element (i, j) of the product, result.elements[i * 4 + j]: the sum of
\* a[i * 4 + k] * b[k * 4 + j] over k = 0..3
Product(a, b, i, j) ==
    a[i * 4 + 1] * b[j + 1] + a[i * 4 + 2] * b[j + 5] +
    a[i * 4 + 3] * b[j + 9] + a[i * 4 + 4] * b[j + 13]

multiply(a, b) ==
    << Product(a, b, 0, 0), Product(a, b, 0, 1), Product(a, b, 0, 2), Product(a, b, 0, 3),
       Product(a, b, 1, 0), Product(a, b, 1, 1), Product(a, b, 1, 2), Product(a, b, 1, 3),
       Product(a, b, 2, 0), Product(a, b, 2, 1), Product(a, b, 2, 2), Product(a, b, 2, 3),
       Product(a, b, 3, 0), Product(a, b, 3, 1), Product(a, b, 3, 2), Product(a, b, 3, 3) >>

translate(m, x, y, z) == SetEl(SetEl(SetEl(m, 12, x), 13, y), 14, z)

\* Math.cos and Math.sin of an angle given in degrees; exact on the quarter
\* turns, the only angles the model rotates by (cos 90 deg is taken as 0)
MathCos(deg) ==
    CASE deg % 360 = 0   -> 1
      [] deg % 360 = 90  -> 0
      [] deg % 360 = 180 -> -1
      [] deg % 360 = 270 -> 0

MathSin(deg) ==
    CASE deg % 360 = 0   -> 0
      [] deg % 360 = 90  -> 1
      [] deg % 360 = 180 -> 0
      [] deg % 360 = 270 -> -1

rotationX(angle) ==
    LET c == MathCos(angle)
        s == MathSin(angle)
    IN  SetEl(SetEl(SetEl(SetEl(_identity, 5, c), 6, -s), 9, s), 10, c)

\* mutant of rotationY: sine and cosine are exchanged
rotationYSwapped(angle) ==
    LET c == MathSin(angle)
        s == MathCos(angle)
    IN  SetEl(SetEl(SetEl(SetEl(_identity, 0, c), 2, s), 8, -s), 10, c)

rotationY(angle) ==
    LET c == MathCos(angle)
        s == MathSin(angle)
    IN  SetEl(SetEl(SetEl(SetEl(_identity, 0, c), 2, s), 8, -s), 10, c)

rotationZ(angle) ==
    LET c == MathCos(angle)
        s == MathSin(angle)
    IN  SetEl(SetEl(SetEl(SetEl(_identity, 0, c), 1, -s), 4, s), 5, c)

scale(sx, sy, sz) == SetEl(SetEl(SetEl(_identity, 0, sx), 5, sy), 10, sz)

transformVector(e, v) ==
    Vector3(El(e, 0) * v.x + El(e, 4) * v.y + El(e, 8) * v.z + El(e, 12),
            El(e, 1) * v.x + El(e, 5) * v.y + El(e, 9) * v.z + El(e, 13),
            El(e, 2) * v.x + El(e, 6) * v.y + El(e, 10) * v.z + El(e, 14))

(***************************************************************************)
(* Math.sin / Math.cos of the generators' parametric angles, which are     *)
(* fractions n / d of a full turn.  The value is returned in thousandths,  *)
(* from Bhaskara's rational formula                                        *)
(*     sin(PI * p / q) ~ 16 p (q - p) / (5 q^2 - 4 p (q - p)),  0 <= p <= q*)
(* which is exact on the quarter turns and on the multiples of 30 deg.     *)
(***************************************************************************)
SinHalfTurn(p, q) == RoundDiv(16000 * p * (q - p), 5 * q * q - 4 * p * (q - p))

\* 1000 * sin(2 PI n / d)
SinTurn(n, d) ==
    LET m == (2 * n) % (2 * d)
    IN  IF m <= d THEN SinHalfTurn(m, d) ELSE -SinHalfTurn(m - d, d)

\* 1000 * cos(2 PI n / d) = 1000 * sin(2 PI (4 n + d) / (4 d))
CosTurn(n, d) == SinTurn(4 * n + d, 4 * d)

\* 1000 * Math.sqrt(3) and 1000 * (1 + Math.sqrt(5)) / 2
Sqrt3Milli == 1732

PhiMilli == 1618

(***************************************************************************)
(* Shapes: the generators.  A mesh is { vertices, edges, faces, name } and *)
(* for axes also colors (the empty array stands for an absent colors).     *)
(***************************************************************************)
\* mutant of Mesh: the last vertex pushed is missing
MeshWithoutLastVertex(vertices, edges, faces, colors, name) ==
    [vertices |-> IF Len(Array(vertices)) = 0 THEN << >>
                  ELSE SubSeq(Array(vertices), 1, Len(Array(vertices)) - 1),
     edges |-> Array(edges), faces |-> faces, colors |-> colors, name |-> name]

\* mutant of Mesh: the last edge pushed is missing
MeshWithoutLastEdge(vertices, edges, faces, colors, name) ==
    [vertices |-> Array(vertices),
     edges |-> IF Len(Array(edges)) = 0 THEN << >>
               ELSE SubSeq(Array(edges), 1, Len(Array(edges)) - 1),
     faces |-> faces, colors |-> colors, name |-> name]

Mesh(vertices, edges, faces, colors, name) ==
    [vertices |-> Array(vertices), edges |-> Array(edges), faces |-> faces,
     colors |-> colors, name |-> name]

cube(size) ==
    LET s == size
    IN  Mesh(<< Vector3( s,  s,  s), Vector3(-s,  s,  s),
                Vector3(-s, -s,  s), Vector3( s, -s,  s),
                Vector3( s,  s, -s), Vector3(-s,  s, -s),
                Vector3(-s, -s, -s), Vector3( s, -s, -s) >>,
             << <<0, 1>>, <<1, 2>>, <<2, 3>>, <<3, 0>>,
                <<4, 5>>, <<5, 6>>, <<6, 7>>, <<7, 4>>,
                <<0, 4>>, <<1, 5>>, <<2, 6>>, <<3, 7>> >>,
             << <<0, 1, 2, 3>>, <<4, 5, 6, 7>>, <<0, 4, 7, 3>>,
                <<1, 5, 6, 2>>, <<0, 1, 5, 4>>, <<3, 2, 6, 7>> >>,
             << >>, "Cube")

tetrahedron(size) ==
    LET s == size
    IN  Mesh(<< Vector3(s, s, s), Vector3(s, -s, -s),
                Vector3(-s, s, -s), Vector3(-s, -s, s) >>,
             << <<0, 1>>, <<0, 2>>, <<0, 3>>,
                <<1, 2>>, <<2, 3>>, <<3, 1>> >>,
             << <<0, 1, 2>>, <<0, 2, 3>>, <<0, 3, 1>>, <<1, 3, 2>> >>,
             << >>, "Tetrahedron")

octahedron(size) ==
    LET s == size
    IN  Mesh(<< Vector3(0, s, 0), Vector3(0, -s, 0), Vector3(s, 0, 0),
                Vector3(-s, 0, 0), Vector3(0, 0, s), Vector3(0, 0, -s) >>,
             << <<0, 2>>, <<0, 3>>, <<0, 4>>, <<0, 5>>,
                <<1, 2>>, <<1, 3>>, <<1, 4>>, <<1, 5>>,
                <<2, 4>>, <<4, 3>>, <<3, 5>>, <<5, 2>> >>,
             << <<0, 4, 2>>, <<0, 2, 5>>, <<0, 5, 3>>, <<0, 3, 4>>,
                <<1, 2, 4>>, <<1, 5, 2>>, <<1, 3, 5>>, <<1, 4, 3>> >>,
             << >>, "Octahedron")

pyramid(size, height) ==
    LET s == size
        h == height
    IN  Mesh(<< Vector3(0, h, 0), Vector3(s, 0, s), Vector3(-s, 0, s),
                Vector3(-s, 0, -s), Vector3(s, 0, -s) >>,
             << <<0, 1>>, <<0, 2>>, <<0, 3>>, <<0, 4>>,
                <<1, 2>>, <<2, 3>>, <<3, 4>>, <<4, 1>> >>,
             << <<0, 1, 2>>, <<0, 2, 3>>, <<0, 3, 4>>, <<0, 4, 1>>,
                <<1, 4, 3, 2>> >>,
             << >>, "Pyramid")

prism(size, length) ==
    LET s == size
        l == RoundDiv(length, 2)
        h == RoundDiv(s * Sqrt3Milli, 2000)
        h2 == RoundDiv(-(s * Sqrt3Milli), 4000)      \* -h/2
    IN  Mesh(<< Vector3(0, h, l), Vector3(-s, h2, l), Vector3(s, h2, l),
                Vector3(0, h, -l), Vector3(-s, h2, -l), Vector3(s, h2, -l) >>,
             << <<0, 1>>, <<1, 2>>, <<2, 0>>,
                <<3, 4>>, <<4, 5>>, <<5, 3>>,
                <<0, 3>>, <<1, 4>>, <<2, 5>> >>,
             << <<0, 1, 2>>, <<3, 5, 4>>, <<0, 3, 4, 1>>,
                <<1, 4, 5, 2>>, <<2, 5, 3, 0>> >>,
             << >>, "Prism")

dodecahedron(size) ==
    LET s == size
        a == s
        b == RoundDiv(s * 1000, PhiMilli)
        c == RoundDiv(s * PhiMilli, 1000)
    IN  Mesh(<< Vector3(a, a, a), Vector3(a, a, -a),
                Vector3(a, -a, a), Vector3(a, -a, -a),
                Vector3(-a, a, a), Vector3(-a, a, -a),
                Vector3(-a, -a, a), Vector3(-a, -a, -a),
                Vector3(0, b, c), Vector3(0, b, -c),
                Vector3(0, -b, c), Vector3(0, -b, -c),
                Vector3(c, 0, b), Vector3(c, 0, -b),
                Vector3(-c, 0, b), Vector3(-c, 0, -b),
                Vector3(b, c, 0), Vector3(b, -c, 0),
                Vector3(-b, c, 0), Vector3(-b, -c, 0) >>,
             << <<0, 8>>, <<0, 12>>, <<0, 16>>, <<1, 9>>, <<1, 13>>,
                <<1, 16>>, <<2, 10>>, <<2, 12>>, <<2, 17>>, <<3, 11>>,
                <<3, 13>>, <<3, 17>>, <<4, 8>>, <<4, 14>>, <<4, 18>>,
                <<5, 9>>, <<5, 15>>, <<5, 18>>, <<6, 10>>, <<6, 14>>,
                <<6, 19>>, <<7, 11>>, <<7, 15>>, <<7, 19>>, <<11, 9>>,
                <<10, 8>>, <<15, 14>>, <<13, 12>>, <<16, 18>>, <<17, 19>> >>,
             << >>, << >>, "Dodecahedron")

\* mutant of Wrap: the index after the last one of a ring is not reduced
NoWrap(k, n) == k

\* k % n, the index of a ring of n samples that closes on itself
Wrap(k, n) == k % n

\* vertex i * minorSegments + j is pushed in iteration (i, j); that iteration
\* pushes the edges [current, nextJ] and [current, nextI], in this order
torus(majorRadius, minorRadius, majorSegments, minorSegments) ==
    LET M == majorSegments
        N == minorSegments
        vertex(k) ==
            LET i == (k - 1) \div N
                j == (k - 1) % N
                cosTheta == CosTurn(i, M)
                sinTheta == SinTurn(i, M)
                cosPhi == CosTurn(j, N)
                sinPhi == SinTurn(j, N)
                ring == majorRadius * 1000 + minorRadius * cosPhi
            IN  Vector3(RoundDiv(ring * cosTheta, 1000000),
                        RoundDiv(minorRadius * sinPhi, 1000),
                        RoundDiv(ring * sinTheta, 1000000))
        edge(k) ==
            LET c == (k - 1) \div 2
                i == c \div N
                j == c % N
                current == i * N + j
                nextJ == i * N + Wrap(j + 1, N)
                nextI == Wrap(i + 1, M) * N + j
            IN  IF k % 2 = 1 THEN <<current, nextJ>> ELSE <<current, nextI>>
    IN  Mesh([k \in 1..(M * N) |-> vertex(k)],
             [k \in 1..(2 * M * N) |-> edge(k)],
             << >>, << >>, "Torus")

\* vertices: lat = 0..segments, lon = 0..segments-1; edges: lat = 0..segments-1
\* (the test lat < segments inside the edge loop is always true there)
sphere(radius, segments) ==
    LET S == segments
        vertex(k) ==
            LET lat == (k - 1) \div S
                lon == (k - 1) % S
                sinTheta == SinTurn(lat, 2 * S)
                cosTheta == CosTurn(lat, 2 * S)
                sinPhi == SinTurn(lon, S)
                cosPhi == CosTurn(lon, S)
            IN  Vector3(RoundDiv(radius * sinTheta * cosPhi, 1000000),
                        RoundDiv(radius * cosTheta, 1000),
                        RoundDiv(radius * sinTheta * sinPhi, 1000000))
        edge(k) ==
            LET c == (k - 1) \div 2
                lat == c \div S
                lon == c % S
                current == lat * S + lon
                next == lat * S + Wrap(lon + 1, S)
                below == (lat + 1) * S + lon
            IN  IF k % 2 = 1 THEN <<current, next>> ELSE <<current, below>>
    IN  Mesh([k \in 1..((S + 1) * S) |-> vertex(k)],
             [k \in 1..(2 * S * S) |-> edge(k)],
             << >>, << >>, "Sphere")

axes(length) ==
    Mesh(<< Vector3(0, 0, 0), Vector3(length, 0, 0),
            Vector3(0, length, 0), Vector3(0, 0, length) >>,
         << <<0, 1>>, <<0, 2>>, <<0, 3>> >>,
         << >>, << "#ff4444", "#44ff44", "#4444ff" >>, "Axes")

\* iteration i = 0..divisions pushes four vertices and two edges;
\* pos = -half + i * step = (2 i - divisions) * size / (2 divisions)
grid(size, divisions) ==
    LET D == divisions
        half == RoundDiv(size, 2)
        pos(i) == RoundDiv((2 * i - D) * size, 2 * D)
        vertex(k) ==
            LET i == (k - 1) \div 4
                r == (k - 1) % 4
            IN  CASE r = 0 -> Vector3(pos(i), 0, -half)
                  [] r = 1 -> Vector3(pos(i), 0, half)
                  [] r = 2 -> Vector3(-half, 0, pos(i))
                  [] r = 3 -> Vector3(half, 0, pos(i))
        edge(k) == <<2 * (k - 1), 2 * (k - 1) + 1>>
    IN  Mesh([k \in 1..(4 * (D + 1)) |-> vertex(k)],
             [k \in 1..(2 * (D + 1)) |-> edge(k)],
             << >>, << >>, "Grid")

(***************************************************************************)
(* Shape names are strings; toLowerCase works on their characters, so a    *)
(* name is the sequence of its characters.                                 *)
(***************************************************************************)
UpperCase == << "A", "B", "C", "D", "E", "F", "G", "H", "I", "J", "K", "L", "M",
                "N", "O", "P", "Q", "R", "S", "T", "U", "V", "W", "X", "Y", "Z" >>

LowerCase == << "a", "b", "c", "d", "e", "f", "g", "h", "i", "j", "k", "l", "m",
                "n", "o", "p", "q", "r", "s", "t", "u", "v", "w", "x", "y", "z" >>

\* the lower-case letter of each upper-case letter
LowerOf ==
    [ch \in { UpperCase[n] : n \in 1..26 } |->
        LowerCase[CHOOSE n \in 1..26 : UpperCase[n] = ch]]

\* mutant of toLowerCase: the name is looked up as it was spelt
KeepCase(str) == str

\* String.prototype.toLowerCase
toLowerCase(str) ==
    Array([k \in 1..Len(str) |->
        IF str[k] \in DOMAIN LowerOf THEN LowerOf[str[k]] ELSE str[k]])

\* spellings of a name a caller may pass: upper case, capitalised, and
\* alternating lower and upper case
toUpperCase(str) ==
    Array([k \in 1..Len(str) |->
        IF \E n \in 1..26 : LowerCase[n] = str[k]
        THEN UpperCase[CHOOSE n \in 1..26 : LowerCase[n] = str[k]]
        ELSE str[k]])

Capitalised(str) ==
    Array([k \in 1..Len(str) |-> IF k = 1 THEN toUpperCase(str)[k] ELSE str[k]])

Alternating(str) ==
    Array([k \in 1..Len(str) |-> IF k % 2 = 0 THEN toUpperCase(str)[k] ELSE str[k]])

\* the keys of the Shapes object literal, in source order
ShapeKeys ==
    << << "c", "u", "b", "e" >>,
       << "t", "e", "t", "r", "a", "h", "e", "d", "r", "o", "n" >>,
       << "o", "c", "t", "a", "h", "e", "d", "r", "o", "n" >>,
       << "p", "y", "r", "a", "m", "i", "d" >>,
       << "p", "r", "i", "s", "m" >>,
       << "d", "o", "d", "e", "c", "a", "h", "e", "d", "r", "o", "n" >>,
       << "t", "o", "r", "u", "s" >>,
       << "s", "p", "h", "e", "r", "e" >>,
       << "a", "x", "e", "s" >>,
       << "g", "r", "i", "d" >> >>

ShapeIds == << "cube", "tetrahedron", "octahedron", "pyramid", "prism",
               "dodecahedron", "torus", "sphere", "axes", "grid" >>

\* Shapes is an object literal, so its prototype is Object.prototype: a key
\* that is not an own property is looked up there.  Of the properties of
\* Object.prototype only constructor and __proto__ are spelt in lower case.
KeyConstructor == << "c", "o", "n", "s", "t", "r", "u", "c", "t", "o", "r" >>

KeyProto == << "_", "_", "p", "r", "o", "t", "o", "_", "_" >>

\* Shapes[key]: what the property access of setShape evaluates to
ShapesGet(key) ==
    IF \E n \in 1..Len(ShapeKeys) : ShapeKeys[n] = key
    THEN [kind |-> "generator",
          id |-> ShapeIds[CHOOSE n \in 1..Len(ShapeKeys) : ShapeKeys[n] = key]]
    ELSE IF key = KeyConstructor THEN [kind |-> "Object", id |-> ""]
    ELSE IF key = KeyProto THEN [kind |-> "Object.prototype", id |-> ""]
    ELSE [kind |-> "undefined", id |-> ""]

\* shapeCreator(...args) for a generator of Shapes, with the parameter defaults
ShapeCreator(id, args) ==
    CASE id = "cube" -> cube(Arg(args, 1, 100))
      [] id = "tetrahedron" -> tetrahedron(Arg(args, 1, 100))
      [] id = "octahedron" -> octahedron(Arg(args, 1, 100))
      [] id = "pyramid" -> pyramid(Arg(args, 1, 100), Arg(args, 2, 150))
      [] id = "prism" -> prism(Arg(args, 1, 80), Arg(args, 2, 150))
      [] id = "dodecahedron" -> dodecahedron(Arg(args, 1, 60))
      [] id = "torus" -> torus(Arg(args, 1, 80), Arg(args, 2, 30),
                               Arg(args, 3, 16), Arg(args, 4, 8))
      [] id = "sphere" -> sphere(Arg(args, 1, 100), Arg(args, 2, 12))
      [] id = "axes" -> axes(Arg(args, 1, 200))
      [] id = "grid" -> grid(Arg(args, 1, 200), Arg(args, 2, 10))

\* Object(...args): an object without vertices and edges properties
NonMesh == Mesh(<< >>, << >>, << >>, << >>, "[object]")

IsMesh(shape) == shape.name # "[object]"

(***************************************************************************)
(* State                                                                   *)
(***************************************************************************)
VARIABLES
    _canvas,               \* Renderer3D._canvas: "null" or the canvas element
    _ctx,                  \* Renderer3D._ctx: "null" or "2d", the 2d context
    _focalLength,          \* Renderer3D._focalLength
    _shape,                \* Renderer3D._shape, the active mesh
    _transformedVertices,  \* Renderer3D._transformedVertices, the cache
    _settings,             \* Renderer3D._settings
    _transform,            \* Renderer3D._transform, the parameter snapshot
    context2d,             \* properties of the canvas's 2d context
    drawn,                 \* drawing operations issued by the last call
    console,               \* console.warn messages emitted by the last call
    call,                  \* the last call on the engine and how it ended
    matrix,                \* a Matrix4 under test (its elements)
    vector,                \* a Vector3 under test
    matrices,              \* the Matrix4 objects a caller holds, by creation
    returned,              \* the value the last utility call returned
    app,                   \* the UIController, "null" before it is created
    dom,                   \* the page: sliders, checkboxes, downloads
    timers                 \* the ids of the interval timers that are active

engine == << _canvas, _ctx, _focalLength, _shape, _transformedVertices,
             _settings, _transform >>

\* the utilities under test on their own, and the page with its controller
lab == << matrix, vector, matrices, returned >>

page == << app, dom, timers >>

vars == << _canvas, _ctx, _focalLength, _shape, _transformedVertices,
           _settings, _transform, context2d, drawn, console, call,
           matrix, vector, matrices, returned, app, dom, timers >>

\* globalAlpha is kept in tenths: 10 is opaque, 3 is the grid's 0.3
Opaque == 10

GridAlpha == 3

\* APP_CONFIG.DEFAULTS: the slider values and the checkbox states
DEFAULTS ==
    [shape |-> "cube", xid |-> 30, yid |-> 45, zid |-> 0,
     tx |-> 250, ty |-> 200, tz |-> 0, sx |-> 100, sy |-> 100, sz |-> 100,
     fid |-> 3000, lineWidth |-> 2, autoRotate |-> FALSE,
     uniformScale |-> TRUE, depthColoring |-> TRUE, showVertices |-> FALSE,
     showAxes |-> FALSE, showGrid |-> FALSE]

\* the fields the UIController constructor assigns; created is FALSE as long
\* as no controller exists (let app, before DOMContentLoaded).  _animationId
\* 0 stands for null, _autoRotateAngle is held in hundredths of a degree.
\* The FPS bookkeeping (_frameCount, _lastFpsUpdate, _fps), which depends on
\* the clock only and feeds the FPS display only, is left out.
NoController ==
    [created |-> FALSE, _animationId |-> 0, _isRunning |-> FALSE,
     _autoRotate |-> FALSE, _autoRotateAngle |-> [x |-> 0, y |-> 0],
     _uniformScale |-> TRUE, _currentShape |-> ShapeKeys[1]]

SliderIds == { "xid", "yid", "zid", "tx", "ty", "tz", "sx", "sy", "sz", "fid",
              "line-width" }

CheckboxIds == { "auto-rotate", "uniform-scale", "depth-coloring",
                "show-vertices", "show-axes", "show-grid" }

\* the page the scripts run in (its markup is not part of the sources):
\* every element the controller looks up exists, the sliders and checkboxes
\* show the defaults, the cube's button is the active one.  download is the
\* file name of the link clicked by the last event, if any
Document ==
    [sliders |-> [id \in SliderIds |->
                     IF id = "line-width" THEN DEFAULTS.lineWidth
                     ELSE DEFAULTS[id]],
     checkboxes |-> [id \in CheckboxIds |->
                        CASE id = "auto-rotate" -> DEFAULTS.autoRotate
                          [] id = "uniform-scale" -> DEFAULTS.uniformScale
                          [] id = "depth-coloring" -> DEFAULTS.depthColoring
                          [] id = "show-vertices" -> DEFAULTS.showVertices
                          [] id = "show-axes" -> DEFAULTS.showAxes
                          [] id = "show-grid" -> DEFAULTS.showGrid],
     activeShape |-> ShapeKeys[1],
     download |-> << >>]

\* a call and its outcome: "completed", "skipped" (early return) or "threw"
Call(op, outcome, arg) == [op |-> op, outcome |-> outcome, arg |-> arg]

Init ==
    /\ _canvas = "null"
    /\ _ctx = "null"
    /\ _focalLength = 3000
    /\ _shape = cube(100)
    /\ _transformedVertices = << >>
    /\ _settings = [showVertices |-> FALSE, showAxes |-> FALSE,
                    showGrid |-> FALSE, depthColoring |-> TRUE,
                    wireframeColor |-> "#4f46e5", vertexColor |-> "#ef4444",
                    vertexSize |-> 4, lineWidth |-> 2,
                    backgroundColor |-> "null", scale |-> Vector3(1, 1, 1)]
    /\ _transform = [rotation |-> Vector3(0, 0, 0),
                     translation |-> Vector3(0, 0, 0),
                     scale |-> Vector3(1, 1, 1)]
    /\ context2d = [lineWidth |-> 1, globalAlpha |-> Opaque]
    /\ drawn = << >>
    /\ console = << >>
    /\ call = Call("constructor", "completed", << >>)
    /\ matrix = _identity
    /\ vector = Vector3(0, 0, 0)
    /\ matrices = << >>
    /\ returned = << >>
    /\ app = NoController
    /\ dom = Document
    /\ timers = { }

(***************************************************************************)
(* Renderer3D: canvas, focalLength, setShape                               *)
(***************************************************************************)
\* canvas?.getContext('2d') || null: the page's canvas element has a 2d
\* context, an element that is not a canvas has none
GetContext(canvas) == IF canvas = "myCanvas" THEN "2d" ELSE "null"

SetCanvas(canvas) ==
    /\ _canvas' = canvas
    /\ _ctx' = GetContext(canvas)
    /\ drawn' = << >>
    /\ console' = << >>
    /\ call' = Call("canvas", "completed", << >>)
    /\ UNCHANGED << _focalLength, _shape, _transformedVertices, _settings,
                    _transform, context2d, lab, page >>

\* a setter that stores the value as given
Unclamped(value) == value

\* Math.max(1, value)
ClampFocalLength(value) == IF value > 1 THEN value ELSE 1

SetFocalLength(value) ==
    /\ _focalLength' = ClampFocalLength(value)
    /\ drawn' = << >>
    /\ console' = << >>
    /\ call' = Call("focalLength", "completed", << >>)
    /\ UNCHANGED << _canvas, _ctx, _shape, _transformedVertices, _settings,
                    _transform, context2d, lab, page >>

\* the caller assigns renderer.settings[key] = value
SetSetting(key, value) ==
    /\ _settings' = [_settings EXCEPT ![key] = value]
    /\ drawn' = << >>
    /\ console' = << >>
    /\ call' = Call("settings", "completed", << >>)
    /\ UNCHANGED << _canvas, _ctx, _focalLength, _shape, _transformedVertices,
                    _transform, context2d, lab, page >>

\* mutant of CacheAfterSetShape: setShape empties the cache
CacheDiscarded(cache) == << >>

\* what setShape leaves in _transformedVertices
CacheAfterSetShape(cache) == cache

\* setShape(shapeName, ...args) on a renderer with the given mesh and cache:
\* a truthy Shapes[...] is called, whatever it is; calling Object.prototype
\* (not a function) raises a TypeError
SetShapeOutcome(shape, cache, shapeName, args) ==
    LET shapeCreator == ShapesGet(toLowerCase(shapeName))
    IN  CASE shapeCreator.kind = "generator" ->
                [shape |-> ShapeCreator(shapeCreator.id, args),
                 cache |-> CacheAfterSetShape(cache),
                 console |-> << >>, outcome |-> "completed"]
          [] shapeCreator.kind = "Object" ->
                [shape |-> NonMesh,
                 cache |-> CacheAfterSetShape(cache),
                 console |-> << >>, outcome |-> "completed"]
          [] shapeCreator.kind = "Object.prototype" ->
                [shape |-> shape, cache |-> cache,
                 console |-> << >>, outcome |-> "threw"]
          [] shapeCreator.kind = "undefined" ->
                [shape |-> shape, cache |-> cache,
                 console |-> << "Shape not found" >>, outcome |-> "completed"]

SetShape(shapeName, args) ==
    LET o == SetShapeOutcome(_shape, _transformedVertices, shapeName, args)
    IN  /\ _shape' = o.shape
        /\ _transformedVertices' = o.cache
        /\ drawn' = << >>
        /\ console' = o.console
        /\ call' = Call("setShape", o.outcome, << shapeName, args >>)
        /\ UNCHANGED << _canvas, _ctx, _focalLength, _settings, _transform,
                        context2d, lab, page >>

(***************************************************************************)
(* Renderer3D.transform                                                    *)
(***************************************************************************)
\* a destructured parameter of transform, with its default
Param(params, key, default) ==
    IF key \in DOMAIN params THEN params[key] ELSE default

\* the parameter object with every default filled in
Destructure(params) ==
    [rotationX |-> Param(params, "rotationX", 0),
     rotationY |-> Param(params, "rotationY", 0),
     rotationZ |-> Param(params, "rotationZ", 0),
     translateX |-> Param(params, "translateX", 0),
     translateY |-> Param(params, "translateY", 0),
     translateZ |-> Param(params, "translateZ", 0),
     scaleX |-> Param(params, "scaleX", 1),
     scaleY |-> Param(params, "scaleY", 1),
     scaleZ |-> Param(params, "scaleZ", 1)]

\* mutant of CombinedMatrix: the factors are multiplied in the opposite order
CombinedMatrixXYZ(p) ==
    LET rotX == rotationX(p.rotationX)
        rotY == rotationY(p.rotationY)
        rotZ == rotationZ(p.rotationZ)
        scl == scale(p.scaleX, p.scaleY, p.scaleZ)
    IN  multiply(multiply(multiply(rotX, rotY), rotZ), scl)

\* scale.multiply(rotZ).multiply(rotY).multiply(rotX); an angle in radians is
\* represented by its degrees, so the factor DEG_TO_RAD is the identity here
CombinedMatrix(p) ==
    LET rotX == rotationX(p.rotationX)
        rotY == rotationY(p.rotationY)
        rotZ == rotationZ(p.rotationZ)
        scl == scale(p.scaleX, p.scaleY, p.scaleZ)
    IN  multiply(multiply(multiply(scl, rotZ), rotY), rotX)

(***************************************************************************)
(* transform with angles and scale factors that are not whole numbers, as  *)
(* the UIController passes them: such a number is held as its hundredths.  *)
(* The matrices are then held in thousandths, every product is rounded to  *)
(* a thousandth and the images of the vertices to whole numbers.           *)
(***************************************************************************)
Hundredths(n) == [hundredths |-> n]

\* 1000 * Math.sin of an angle of h hundredths of a degree, by Bhaskara's
\* formula on the half turn (q = 18000): 16 p (q - p) / (5 q^2 - 4 p (q - p))
SinMilli(h) ==
    LET a == h % 36000
        p == IF a <= 18000 THEN a ELSE a - 18000
        num == 16 * p * (18000 - p)
        den == (5 * 18000 * 18000 - 4 * p * (18000 - p)) \div 1000
        abs == (num \div den) + (IF 2 * (num % den) >= den THEN 1 ELSE 0)
    IN  IF a <= 18000 THEN abs ELSE -abs

CosMilli(h) == SinMilli(h + 9000)

\* the identity in thousandths
UnitMilli == Array([k \in 1..16 |-> 1000 * _identity[k]])

\* Matrix4.rotationX, rotationY, rotationZ in thousandths
RotationMilli(axis, h) ==
    LET c == CosMilli(h)
        s == SinMilli(h)
    IN  CASE axis = "X" ->
                SetEl(SetEl(SetEl(SetEl(UnitMilli, 5, c), 6, -s), 9, s), 10, c)
          [] axis = "Y" ->
                SetEl(SetEl(SetEl(SetEl(UnitMilli, 0, c), 2, s), 8, -s), 10, c)
          [] axis = "Z" ->
                SetEl(SetEl(SetEl(SetEl(UnitMilli, 0, c), 1, -s), 4, s), 5, c)

\* Matrix4.multiply in thousandths
MultiplyMilli(a, b) ==
    LET product == multiply(a, b)
    IN  Array([k \in 1..16 |-> RoundDiv(product[k], 1000)])

\* scale.multiply(rotZ).multiply(rotY).multiply(rotX) in thousandths
CombinedMatrixMilli(p) ==
    LET rotX == RotationMilli("X", p.rotationX.hundredths)
        rotY == RotationMilli("Y", p.rotationY.hundredths)
        rotZ == RotationMilli("Z", p.rotationZ.hundredths)
        scl == SetEl(SetEl(SetEl(UnitMilli, 0, 10 * p.scaleX.hundredths),
                           5, 10 * p.scaleY.hundredths),
                     10, 10 * p.scaleZ.hundredths)
        sz == MultiplyMilli(scl, rotZ)
        szy == MultiplyMilli(sz, rotY)
    IN  MultiplyMilli(szy, rotX)

\* the new contents of _transformedVertices
TransformVerticesMilli(vertices, p) ==
    LET m == CombinedMatrixMilli(p)
        image(v) ==
            LET transformed == transformVector(m, v)
            IN  Vector3(RoundDiv(transformed.x, 1000) + p.translateX,
                        RoundDiv(transformed.y, 1000) + p.translateY,
                        RoundDiv(transformed.z, 1000) + p.translateZ)
    IN  Map(vertices, image)

\* the new contents of _transformedVertices
TransformVertices(vertices, p) ==
    LET m == CombinedMatrix(p)
        image(v) ==
            LET transformed == transformVector(m, v)
            IN  Vector3(transformed.x + p.translateX,
                        transformed.y + p.translateY,
                        transformed.z + p.translateZ)
    IN  Map(vertices, image)

\* the transform state stored by transform
TransformState(p) ==
    [rotation |-> Vector3(p.rotationX, p.rotationY, p.rotationZ),
     translation |-> Vector3(p.translateX, p.translateY, p.translateZ),
     scale |-> Vector3(p.scaleX, p.scaleY, p.scaleZ)]

\* transform(params); this._shape.vertices.map raises a TypeError when the
\* active shape has no vertices property, before anything is assigned
Transform(params) ==
    LET p == Destructure(params)
    IN  /\ drawn' = << >>
        /\ console' = << >>
        /\ UNCHANGED << _canvas, _ctx, _focalLength, _shape, _settings,
                        context2d, lab, page >>
        /\ IF IsMesh(_shape)
           THEN /\ _transformedVertices' = TransformVertices(_shape.vertices, p)
                /\ _transform' = TransformState(p)
                /\ call' = Call("transform", "completed", << params >>)
           ELSE /\ UNCHANGED << _transformedVertices, _transform >>
                /\ call' = Call("transform", "threw", << params >>)

(***************************************************************************)
(* Renderer3D: projection and drawing                                      *)
(***************************************************************************)
\* _projectVertex: scale = f / (f + z), x * scale, y * scale.  The quotients
\* are kept as numerators xn, yn, sn over the common denominator den
_projectVertex(focalLength, vertex) ==
    [xn |-> vertex.x * focalLength,
     yn |-> vertex.y * focalLength,
     sn |-> focalLength,
     den |-> focalLength + vertex.z,
     z |-> vertex.z]

\* a JavaScript string used as a condition
Truthy(str) == str # "null" /\ str # ""

\* _clearCanvas, called with a context and a canvas attached
_clearCanvas(settings) ==
    IF Truthy(settings.backgroundColor)
    THEN << [op |-> "fillRect", group |-> "clear",
             fillStyle |-> settings.backgroundColor] >>
    ELSE << [op |-> "clearRect", group |-> "clear", fillStyle |-> "null"] >>

(***************************************************************************)
(* ColorUtils.  hslToHex is computed exactly on fractions: the hue is given*)
(* in 1/40 degree and the lightness in 1/20 percent (the grain of what     *)
(* depthColor passes for a depth that is a multiple of 1/2), the saturation*)
(* in percent.  A string is the sequence of its characters.                *)
(***************************************************************************)
\* the remainder operator of JavaScript: the sign is the dividend's
JsRem(n, d) == IF n >= 0 THEN n % d ELSE -((-n) % d)

HexDigit == << "0", "1", "2", "3", "4", "5", "6", "7",
               "8", "9", "a", "b", "c", "d", "e", "f" >>

\* Number.prototype.toString(16) of an integer (-0 prints as "0")
RECURSIVE toString16(_)
toString16(n) ==
    IF n < 0 THEN << "-" >> \o toString16(-n)
    ELSE IF n < 16 THEN << HexDigit[n + 1] >>
    ELSE toString16(n \div 16) \o << HexDigit[(n % 16) + 1] >>

\* String.prototype.padStart(2, '0')
padStart2(str) == IF Len(str) < 2 THEN << "0" >> \o str ELSE str

\* mutant of ColorByte: the channel is clamped to 0..255
ColorByteClamped(n, d) ==
    LET byte == 17 * (n \div d) + ((34 * (n % d) + d) \div (2 * d))
    IN  Max(0, Min(255, byte))

\* Math.round(255 * color) for color = n / (15 * d): 255 / 15 = 17, and
\* Math.round is the floor of the value plus one half.  (When 255 * color is
\* exactly a half, the double arithmetic of the code may fall just below it
\* and give the integer below.)
ColorByte(n, d) == 17 * (n \div d) + ((34 * (n % d) + d) \div (2 * d))

\* the channel f(n) of hslToHex:
\*   k = (n + h / 30) % 12 = kNum / 1200,
\*   Math.max(Math.min(k - 3, 9 - k, 1), -1) = mNum / 1200,
\*   a = s * Math.min(l, 1 - l) = s * aNum / 200000,
\*   color = l - a * (mNum / 1200) = (120000 * l20 - s * aNum * mNum) / 240000000
Channel(n, h40, s, l20) ==
    LET kNum == JsRem(1200 * n + h40, 14400)
        mNum == Max(Min(Min(kNum - 3600, 10800 - kNum), 1200), -1200)
        aNum == Min(l20, 2000 - l20)
    IN  padStart2(toString16(
            ColorByte(120000 * l20 - s * aNum * mNum, 16000000)))

hslToHex(h40, s, l20) ==
    << "#" >> \o Channel(0, h40, s, l20) \o Channel(8, h40, s, l20)
              \o Channel(4, h40, s, l20)

\* the characters of a string, joined
RECURSIVE Join(_)
Join(chars) == IF chars = << >> THEN "" ELSE Head(chars) \o Join(Tail(chars))

\* depthColor(z) with the default minZ = -200 and maxZ = 200, as the
\* characters of the string; z is given as z2 = 2 z:
\*   normalized = (z2 + 400) / 800, hue = 200 + 60 * normalized,
\*   lightness = 30 + 40 * normalized
DepthColorHex(z2) == hslToHex(8000 + 3 * (z2 + 400), 80, 600 + (z2 + 400))

\* the colour of a depth (given as twice the depth), ColorUtils.depthColor
depthColor(avgZ2) ==
    [fn |-> "depthColor", hex |-> Join(DepthColorHex(avgZ2)), avgZ2 |-> avgZ2]

\* a colour given as a string
Literal(hex) == [fn |-> "literal", hex |-> hex, avgZ2 |-> 0]

\* mutant of StrokeColor: depth colouring overrides a colour that is passed
StrokeColorDepthFirst(settings, z1, z2, color) ==
    IF settings.depthColoring THEN depthColor(z1 + z2)
    ELSE IF Truthy(color) THEN Literal(color)
         ELSE Literal(settings.wireframeColor)

\* strokeColor of _drawLine; z1 + z2 is twice avgZ
StrokeColor(settings, z1, z2, color) ==
    IF settings.depthColoring /\ ~Truthy(color)
    THEN depthColor(z1 + z2)
    ELSE IF Truthy(color) THEN Literal(color)
         ELSE Literal(settings.wireframeColor)

\* the line width _drawLine strokes with: it assigns ctx.lineWidth itself
StrokeWidth(ctx, settings) == settings.lineWidth

\* _drawLine on a context with properties ctx: the stroke it issues.  group
\* and edge say which loop and which edge the call belongs to
_drawLine(ctx, settings, p1, p2, z1, z2, color, group, edge) ==
    [op |-> "stroke", group |-> group, edge |-> edge,
     from |-> [xn |-> p1.xn, yn |-> p1.yn, den |-> p1.den],
     to |-> [xn |-> p2.xn, yn |-> p2.yn, den |-> p2.den],
     strokeStyle |-> StrokeColor(settings, z1, z2, color),
     lineWidth |-> StrokeWidth(ctx, settings),
     lineCap |-> "round",
     globalAlpha |-> ctx.globalAlpha]

\* Math.max(2, vertexSize * p.scale) as a quotient n / d: the product
\* vertexSize * sn / den when that exceeds 2 (den = 0 gives Infinity)
VertexRadius(settings, p) ==
    LET n == settings.vertexSize * p.sn
    IN  IF \/ (p.den > 0 /\ n > 2 * p.den)
           \/ (p.den < 0 /\ n < 2 * p.den)
           \/ (p.den = 0 /\ n > 0)
        THEN [n |-> n, d |-> p.den]
        ELSE [n |-> 2, d |-> 1]

\* _drawVertex
_drawVertex(settings, p, index) ==
    [op |-> "fill", group |-> "vertex", index |-> index,
     at |-> [xn |-> p.xn, yn |-> p.yn, den |-> p.den],
     radius |-> VertexRadius(settings, p),
     fillStyle |-> settings.vertexColor]

\* _renderGrid: the strokes issued, all with globalAlpha 0.3
_renderGrid(ctx, focalLength, settings, transform) ==
    IF ~settings.showGrid THEN << >>
    ELSE
        LET g == grid(300, 10)
            project(v) ==
                _projectVertex(focalLength,
                    Vector3(v.x + transform.translation.x,
                            v.y + transform.translation.y - 100,
                            v.z + transform.translation.z))
            projectedGrid == Map(g.vertices, project)
            dim == [ctx EXCEPT !.globalAlpha = GridAlpha]
            line(e) ==
                LET p1 == projectedGrid[e[1] + 1]
                    p2 == projectedGrid[e[2] + 1]
                IN  _drawLine(dim, settings, p1, p2, p1.z, p2.z,
                              "#666666", "grid", e)
        IN  Map(g.edges, line)

\* _renderAxes: the strokes issued, each after this._ctx.lineWidth = 3
_renderAxes(ctx, focalLength, settings, transform) ==
    IF ~settings.showAxes THEN << >>
    ELSE
        LET a == axes(150)
            project(v) ==
                _projectVertex(focalLength,
                    Vector3(v.x + transform.translation.x,
                            v.y + transform.translation.y,
                            v.z + transform.translation.z))
            projectedAxes == Map(a.vertices, project)
            wide == [ctx EXCEPT !.lineWidth = 3]
        IN  [idx \in 1..Len(a.edges) |->
                LET p1 == projectedAxes[a.edges[idx][1] + 1]
                    p2 == projectedAxes[a.edges[idx][2] + 1]
                IN  _drawLine(wide, settings, p1, p2, p1.z, p2.z,
                              a.colors[idx], "axes", a.edges[idx])]

\* mutant of CompareDepth: the operands are exchanged
CompareDepthDescending(a, b) == b.depth2 - a.depth2

\* the comparator of edgesWithDepth.sort: a negative result puts a before b
CompareDepth(a, b) == a.depth2 - b.depth2

\* insertion of e into a sorted array, after every element that does not
\* compare greater (Array.prototype.sort is stable)
RECURSIVE InsertSorted(_, _)
InsertSorted(sorted, e) ==
    IF sorted = << >> THEN << e >>
    ELSE IF CompareDepth(sorted[Len(sorted)], e) <= 0
         THEN Append(sorted, e)
         ELSE Append(InsertSorted(SubSeq(sorted, 1, Len(sorted) - 1), e),
                     sorted[Len(sorted)])

RECURSIVE SortFrom(_, _, _)
SortFrom(arr, k, sorted) ==
    IF k > Len(arr) THEN sorted
    ELSE SortFrom(arr, k + 1, InsertSorted(sorted, arr[k]))

\* Array.prototype.sort with CompareDepth
SortEdges(arr) == SortFrom(arr, 1, << >>)

\* this._transformedVertices[i].z raises a TypeError when entry i is missing
EdgeReadable(cache, e) ==
    /\ e[1] >= 0 /\ e[1] < Len(cache)
    /\ e[2] >= 0 /\ e[2] < Len(cache)

\* edgesWithDepth before the sort; depth2 = z_i + z_j is twice avgZ
EdgesWithDepth(shape, cache) ==
    Array([k \in 1..Len(shape.edges) |->
        LET e == shape.edges[k]
        IN  [edge |-> e, depth2 |-> cache[e[1] + 1].z + cache[e[2] + 1].z]])

\* the edge loop of render can run: the shape has an edges array and every
\* edge reads two cached vertices
EdgesComputable(shape, cache) ==
    /\ IsMesh(shape)
    /\ \A k \in 1..Len(shape.edges) : EdgeReadable(cache, shape.edges[k])

\* the strokes of the main mesh, in the order they are issued
MeshStrokes(ctx, focalLength, settings, shape, cache) ==
    LET projectedVertices ==
            [k \in 1..Len(cache) |-> _projectVertex(focalLength, cache[k])]
        sorted == SortEdges(EdgesWithDepth(shape, cache))
    IN  [k \in 1..Len(sorted) |->
            LET i == sorted[k].edge[1]
                j == sorted[k].edge[2]
            IN  _drawLine(ctx, settings,
                          projectedVertices[i + 1], projectedVertices[j + 1],
                          cache[i + 1].z, cache[j + 1].z,
                          "null", "mesh", sorted[k].edge)]

\* the discs of the cached vertices
VertexFills(focalLength, settings, cache) ==
    IF ~settings.showVertices THEN << >>
    ELSE [k \in 1..Len(cache) |->
            _drawVertex(settings, _projectVertex(focalLength, cache[k]), k - 1)]

\* mutant of NoBackend: render tests the canvas only
NoCanvas(ctx, canvas) == canvas = "null"

\* render() returns at once without a context or a canvas
NoBackend(ctx, canvas) == ctx = "null" \/ canvas = "null"

\* the context's properties when render returns or throws: every _drawLine
\* leaves lineWidth = settings.lineWidth, _renderGrid leaves globalAlpha = 1
\* and _renderAxes ends with lineWidth = settings.lineWidth
ContextAfter(ctx, settings, strokes, axesRan) ==
    IF strokes # << >> \/ axesRan
    THEN [lineWidth |-> settings.lineWidth, globalAlpha |-> ctx.globalAlpha]
    ELSE ctx

\* mutant of HelperOps: the axes are drawn before the grid
HelperOpsAxesFirst(cleared, gridOps, axesOps) == cleared \o axesOps \o gridOps

\* what render has issued when it reaches the main mesh: _clearCanvas(),
\* _renderGrid(), _renderAxes() in this order
HelperOps(cleared, gridOps, axesOps) == cleared \o gridOps \o axesOps

\* render() on a renderer with the given fields and a context with the
\* properties ctx2d: what is drawn, the context's properties afterwards, the
\* console output and how the call ends
\* edgesWithDepth.sort run on this._shape.edges itself: the sorted order is
\* left in the mesh
EdgesSortedInPlace(edges, sorted) ==
    Array([k \in 1..Len(sorted) |-> sorted[k].edge])

\* this._shape.edges after render has sorted: edgesWithDepth is a new array
\* built by map, sort reorders that array, the mesh's own list keeps its order
EdgesAfterSort(edges, sorted) == edges

RenderOutcome(canvas, ctx, ctx2d, focalLength, settings, transform, shape, cache) ==
    IF NoBackend(ctx, canvas)
    THEN [drawn |-> << >>,
          console |-> << "Renderer3D: No canvas context available" >>,
          context2d |-> ctx2d,
          edges |-> shape.edges,
          outcome |-> "skipped"]
    ELSE LET cleared == _clearCanvas(settings)
             gridOps == _renderGrid(ctx2d, focalLength, settings, transform)
             afterGrid == IF settings.showGrid
                          THEN ContextAfter([ctx2d EXCEPT !.globalAlpha = Opaque],
                                            settings, gridOps, FALSE)
                          ELSE ctx2d
             axesOps == _renderAxes(afterGrid, focalLength, settings, transform)
             afterAxes == ContextAfter(afterGrid, settings, axesOps,
                                       settings.showAxes)
             helpers == HelperOps(cleared, gridOps, axesOps)
         IN  IF EdgesComputable(shape, cache)
             THEN LET strokes == MeshStrokes(afterAxes, focalLength, settings,
                                             shape, cache)
                  IN  [drawn |-> helpers \o strokes \o
                                     VertexFills(focalLength, settings, cache),
                       console |-> << >>,
                       context2d |-> ContextAfter(afterAxes, settings, strokes,
                                                  FALSE),
                       edges |-> EdgesAfterSort(shape.edges,
                                     SortEdges(EdgesWithDepth(shape, cache))),
                       outcome |-> "completed"]
             ELSE [drawn |-> helpers,
                   console |-> << >>,
                   context2d |-> afterAxes,
                   edges |-> shape.edges,
                   outcome |-> "threw"]

Render ==
    LET r == RenderOutcome(_canvas, _ctx, context2d, _focalLength, _settings,
                           _transform, _shape, _transformedVertices)
    IN  /\ drawn' = r.drawn
        /\ console' = r.console
        /\ context2d' = r.context2d
        /\ call' = Call("render", r.outcome, << >>)
        /\ _shape' = [_shape EXCEPT !.edges = r.edges]
        /\ UNCHANGED << _canvas, _ctx, _focalLength, _transformedVertices,
                        _settings, _transform, lab, page >>

(***************************************************************************)
(* UIController (scripts.js) and the global renderer it drives.  A handler *)
(* is one step; the renderer it works on is the record of the engine's     *)
(* fields, which the step stores back.                                     *)
(***************************************************************************)
Renderer ==
    [canvas |-> _canvas, ctx |-> _ctx, focalLength |-> _focalLength,
     shape |-> _shape, cache |-> _transformedVertices, settings |-> _settings,
     transform |-> _transform, context2d |-> context2d,
     drawn |-> << >>, console |-> << >>, outcome |-> "completed"]

\* _getSliderValues: parseFloat of every slider's value; the scale factors
\* are the slider values divided by 100
_getSliderValues(d) ==
    [rotationX |-> d.sliders["xid"], rotationY |-> d.sliders["yid"],
     rotationZ |-> d.sliders["zid"],
     translateX |-> d.sliders["tx"], translateY |-> d.sliders["ty"],
     translateZ |-> d.sliders["tz"],
     scaleX |-> Hundredths(d.sliders["sx"]),
     scaleY |-> Hundredths(d.sliders["sy"]),
     scaleZ |-> Hundredths(d.sliders["sz"]),
     focalLength |-> d.sliders["fid"],
     lineWidth |-> d.sliders["line-width"]]

\* _autoRotateAngle after _renderFrame: AUTO_ROTATE_SPEED = 0.5 degrees are
\* added to y and 0.3 times as much to x when auto-rotate is on
AngleAfterFrame(a) ==
    IF a._autoRotate
    THEN [x |-> a._autoRotateAngle.x + 15, y |-> a._autoRotateAngle.y + 50]
    ELSE a._autoRotateAngle

\* the one element of a set of one element
Only(S) == CHOOSE x \in S : TRUE

\* the angles _renderFrame adds to the rotation sliders
Turned(a) == IF a._autoRotate THEN AngleAfterFrame(a) ELSE [x |-> 0, y |-> 0]

\* the parameter object _renderFrame hands to transform
FrameParams(values, turned) ==
    [rotationX |-> Hundredths(100 * values.rotationX + turned.x),
     rotationY |-> Hundredths(100 * values.rotationY + turned.y),
     rotationZ |-> Hundredths(100 * values.rotationZ),
     translateX |-> values.translateX,
     translateY |-> values.translateY,
     translateZ |-> values.translateZ,
     scaleX |-> values.scaleX, scaleY |-> values.scaleY,
     scaleZ |-> values.scaleZ]

\* renderer.focalLength = values.focalLength (the setter) and
\* renderer.settings.lineWidth = values.lineWidth
FrameInputs(r, values) ==
    [r EXCEPT !.focalLength = ClampFocalLength(values.focalLength),
              !.settings.lineWidth = values.lineWidth]

\* renderer.transform(p) on the renderer record: it throws when the active
\* shape has no vertices
transform(r, p) ==
    IF IsMesh(r.shape)
    THEN [r EXCEPT !.cache = TransformVerticesMilli(r.shape.vertices, p),
                   !.transform = TransformState(p)]
    ELSE [r EXCEPT !.outcome = "threw"]

\* the renderer record after a render that had outcome o
Rendered(r, o) ==
    [r EXCEPT !.drawn = o.drawn, !.console = o.console,
              !.context2d = o.context2d, !.shape.edges = o.edges,
              !.outcome = o.outcome]

\* renderer.render() on the renderer record, skipped when the frame has
\* already thrown
render(r) ==
    IF r.outcome = "threw" THEN r
    ELSE Only({ Rendered(r, o) :
                    o \in { RenderOutcome(r.canvas, r.ctx, r.context2d,
                                          r.focalLength, r.settings,
                                          r.transform, r.shape, r.cache) } })

\* _renderFrame without its transform call: render draws what the cache holds
_renderFrameWithoutTransform(r, a, d) ==
    [renderer |-> render(FrameInputs(r, _getSliderValues(d))),
     app |-> [a EXCEPT !._autoRotateAngle = AngleAfterFrame(a)]]

\* _renderFrame of controller a on renderer r: the focalLength setter, the
\* line width, transform and render; a transform that throws ends the frame
_renderFrame(r, a, d) ==
    [renderer |->
        Only({ render(transformed) :
                  transformed \in
                      { transform(set, p) :
                           set \in { FrameInputs(r, _getSliderValues(d)) },
                           p \in { FrameParams(_getSliderValues(d), Turned(a)) } } }),
     app |-> [a EXCEPT !._autoRotateAngle = AngleAfterFrame(a)]]

\* the renderer record after a setShape that had outcome o
ShapeSet(r, o) ==
    [r EXCEPT !.shape = o.shape, !.cache = o.cache,
              !.console = o.console, !.outcome = o.outcome]

\* renderer.setShape(shapeName) on the renderer record
setShape(r, shapeName) ==
    Only({ ShapeSet(r, o) :
              o \in { SetShapeOutcome(r.shape, r.cache, shapeName, << >>) } })

\* setInterval returns an id no active timer has
FreshTimer(t) == CHOOSE id \in 1..(Cardinality(t) + 1) : id \notin t

\* the controller and the timers once timer id runs
Started(a, t, id) ==
    [app |-> [a EXCEPT !._isRunning = TRUE, !._animationId = id],
     timers |-> t \cup { id }]

\* start() without its first line: a new interval timer at every call
startUnguarded(a, t) == Started(a, t, FreshTimer(t))

\* start(): nothing when running, else a new interval timer
start(a, t) ==
    IF a._isRunning THEN [app |-> a, timers |-> t]
    ELSE Started(a, t, FreshTimer(t))

\* stop(): nothing when not running, else the timer is cleared
stop(a, t) ==
    IF ~a._isRunning THEN [app |-> a, timers |-> t]
    ELSE [app |-> [a EXCEPT !._isRunning = FALSE, !._animationId = 0],
          timers |-> IF a._animationId # 0 THEN t \ { a._animationId } ELSE t]

\* the four display settings at their defaults
DefaultSettings(r) ==
    [r EXCEPT !.settings.depthColoring = DEFAULTS.depthColoring,
              !.settings.showVertices = DEFAULTS.showVertices,
              !.settings.showAxes = DEFAULTS.showAxes,
              !.settings.showGrid = DEFAULTS.showGrid]

\* the page after resetControls: the sliders named by a key of DEFAULTS,
\* the checkboxes and the active shape button
ResetPage(d) ==
    [d EXCEPT !.sliders = [id \in SliderIds |->
                              IF id \in DOMAIN DEFAULTS THEN DEFAULTS[id]
                              ELSE d.sliders[id]],
              !.checkboxes = Document.checkboxes,
              !.activeShape = ShapeKeys[1]]

\* the controller's fields after resetControls
ResetFields(a) ==
    [a EXCEPT !._autoRotate = DEFAULTS.autoRotate,
              !._uniformScale = DEFAULTS.uniformScale,
              !._currentShape = ShapeKeys[1],
              !._autoRotateAngle = [x |-> 0, y |-> 0]]

\* the renderer, the controller, the page and the timers as one value
PageState(r, a, d, t) == [renderer |-> r, app |-> a, dom |-> d, timers |-> t]

\* the state a frame leaves
Framed(frame, d, t) == PageState(frame.renderer, frame.app, d, t)

\* the frame that ends resetControls
ResetFrame(r, a, d, t) ==
    IF r.outcome = "threw" THEN PageState(r, a, d, t)
    ELSE Only({ Framed(frame, d, t) :
                   frame \in { _renderFrame(r, ResetFields(a), d) } })

\* resetControls: sliders, checkboxes with the fields and settings behind
\* them, the shape, the auto-rotate angle, then a frame
resetControls(r, a, d, t) ==
    Only({ ResetFrame(r1, a, d1, t) :
              r1 \in { setShape(DefaultSettings(r), ShapeKeys[1]) },
              d1 \in { ResetPage(d) } })

\* _takeScreenshot: a link named after the current shape is clicked
_takeScreenshot(a, d) ==
    [d EXCEPT !.download = << "3d-render-" >> \o a._currentShape \o << ".png" >>]

\* event.key.toLowerCase() of a one-letter key
KeyLower(key) == IF key \in DOMAIN LowerOf THEN LowerOf[key] ELSE key

\* _handleKeyboard(event) with event.key = key and event.target.tagName =
\* tagName, on the state same: the renderer, controller, page and timers
\* afterwards
_handleKeyboard(same, key, tagName) ==
    IF tagName = "INPUT" THEN same
    ELSE CASE KeyLower(key) = "r" ->
                resetControls(same.renderer, same.app, same.dom, same.timers)
           [] KeyLower(key) = " " ->
                IF same.app._isRunning
                THEN [same EXCEPT
                         !.app = stop(same.app, same.timers).app,
                         !.timers = stop(same.app, same.timers).timers]
                ELSE [same EXCEPT
                         !.app = start(same.app, same.timers).app,
                         !.timers = start(same.app, same.timers).timers]
           [] KeyLower(key) = "a" ->
                [same EXCEPT
                    !.app._autoRotate = ~same.app._autoRotate,
                    !.dom.checkboxes["auto-rotate"] = ~same.app._autoRotate]
           [] KeyLower(key) = "v" ->
                [same EXCEPT
                    !.renderer.settings.showVertices =
                        ~same.renderer.settings.showVertices,
                    !.dom.checkboxes["show-vertices"] =
                        ~same.renderer.settings.showVertices]
           [] KeyLower(key) = "g" ->
                [same EXCEPT
                    !.renderer.settings.showGrid =
                        ~same.renderer.settings.showGrid,
                    !.dom.checkboxes["show-grid"] =
                        ~same.renderer.settings.showGrid]
           [] KeyLower(key) = "x" ->
                [same EXCEPT
                    !.renderer.settings.showAxes =
                        ~same.renderer.settings.showAxes,
                    !.dom.checkboxes["show-axes"] =
                        ~same.renderer.settings.showAxes]
           [] OTHER -> same

\* the state s is stored and the event recorded
StoreState(s, op, arg) ==
    /\ _canvas' = s.renderer.canvas
    /\ _ctx' = s.renderer.ctx
    /\ _focalLength' = s.renderer.focalLength
    /\ _shape' = s.renderer.shape
    /\ _transformedVertices' = s.renderer.cache
    /\ _settings' = s.renderer.settings
    /\ _transform' = s.renderer.transform
    /\ context2d' = s.renderer.context2d
    /\ drawn' = s.renderer.drawn
    /\ console' = s.renderer.console
    /\ app' = s.app
    /\ dom' = s.dom
    /\ timers' = s.timers
    /\ call' = Call(op, s.renderer.outcome, arg)
    /\ UNCHANGED lab

\* what the last event left in the page's download field is cleared
Page == [dom EXCEPT !.download = << >>]

\* the end of init(): start() after the first frame
InitStart(frame, d, t) ==
    PageState(frame.renderer, start(frame.app, t).app, d,
              start(frame.app, t).timers)

\* init() on a page with the canvas: renderer.canvas, setShape('cube'),
\* the default settings, a frame, start
init(r, a, d, t) ==
    Only({ InitStart(frame, d, t) :
              frame \in
                  { _renderFrame(DefaultSettings(r1), a, d) :
                       r1 \in { setShape([r EXCEPT
                                              !.canvas = "myCanvas",
                                              !.ctx = GetContext("myCanvas")],
                                         ShapeKeys[1]) } } })

\* DOMContentLoaded: app = new UIController(); app.init()
DOMContentLoaded ==
    /\ ~app.created
    /\ \E s \in { init(Renderer, [NoController EXCEPT !.created = TRUE],
                        Page, timers) } :
           StoreState(s, "DOMContentLoaded", << >>)

\* a keydown event on the document
KeyDown(key, tagName) ==
    /\ app.created
    /\ \E s \in { _handleKeyboard(PageState(Renderer, app, Page, timers),
                                   key, tagName) } :
           StoreState(s, "keydown", << key, tagName >>)

\* the interval timer id fires: _tick, that is _renderFrame
Tick(id) ==
    /\ id \in timers
    /\ app._animationId = id
    /\ app._autoRotate => app._autoRotateAngle.y < 50 * MaxAutoFrames
    /\ \E frame \in { _renderFrame(Renderer, app, Page) } :
           StoreState(Framed(frame, Page, timers), "tick", << id >>)

\* the sliders after the input handler of slider id, moved to value: a
\* scale slider is copied to the other two when uniform scaling is on
SlidersAfterInput(sliders, uniform, id, value) ==
    [s \in SliderIds |->
        IF s = id \/ (uniform /\ { s, id } \subseteq { "sx", "sy", "sz" })
        THEN value ELSE sliders[s]]

\* the user moves slider id to value
SliderInput(id, value) ==
    /\ app.created
    /\ \E sliders \in { SlidersAfterInput(dom.sliders, app._uniformScale,
                                           id, value) } :
           StoreState(PageState(Renderer, app,
                                [Page EXCEPT !.sliders = sliders], timers),
                      "input", << id, value >>)

\* the controller after the change handler of checkbox id
FieldsAfterChange(a, id, checked) ==
    CASE id = "auto-rotate" -> [a EXCEPT !._autoRotate = checked]
      [] id = "uniform-scale" -> [a EXCEPT !._uniformScale = checked]
      [] OTHER -> a

\* the renderer after the change handler of checkbox id
SettingsAfterChange(r, id, checked) ==
    CASE id = "depth-coloring" -> [r EXCEPT !.settings.depthColoring = checked]
      [] id = "show-vertices" -> [r EXCEPT !.settings.showVertices = checked]
      [] id = "show-axes" -> [r EXCEPT !.settings.showAxes = checked]
      [] id = "show-grid" -> [r EXCEPT !.settings.showGrid = checked]
      [] OTHER -> r

\* the user toggles checkbox id
CheckboxChange(id) ==
    /\ app.created
    /\ StoreState(PageState(SettingsAfterChange(Renderer, id, ~dom.checkboxes[id]),
                            FieldsAfterChange(app, id, ~dom.checkboxes[id]),
                            [Page EXCEPT !.checkboxes[id] = ~dom.checkboxes[id]],
                            timers),
                  "change", << id >>)

\* a click on the shape button with data-shape = shape
ShapeClick(shape) ==
    /\ app.created
    /\ \E r \in { setShape(Renderer, shape) } :
           StoreState(PageState(r, [app EXCEPT !._currentShape = shape],
                                [Page EXCEPT !.activeShape = shape], timers),
                      "click", << "shape-btn", shape >>)

\* a click on the reset button
ResetClick ==
    /\ app.created
    /\ \E s \in { resetControls(Renderer, app, Page, timers) } :
           StoreState(s, "click", << "reset-btn" >>)

\* a click on the screenshot button
ScreenshotClick ==
    /\ app.created
    /\ StoreState(PageState(Renderer, app, _takeScreenshot(app, Page), timers),
                  "click", << "screenshot-btn" >>)

\* the legacy setFocalLength(value): renderer.focalLength = value
setFocalLength(value) ==
    /\ _focalLength' = ClampFocalLength(value)
    /\ drawn' = << >>
    /\ console' = << >>
    /\ call' = Call("setFocalLength", "completed", << value >>)
    /\ UNCHANGED << _canvas, _ctx, _shape, _transformedVertices, _settings,
                    _transform, context2d, lab, page >>

(***************************************************************************)
(* Matrix4 and Vector3 on their own: a matrix is built by a constructor    *)
(* and applied to a vector                                                 *)
(***************************************************************************)
MatrixRotation(axis, angle) ==
    /\ matrix' = CASE axis = "X" -> rotationX(angle)
                   [] axis = "Y" -> rotationY(angle)
                   [] axis = "Z" -> rotationZ(angle)
    /\ call' = Call("rotation" \o axis, "completed", << >>)
    /\ UNCHANGED << engine, context2d, drawn, console, vector, matrices,
                    returned, page >>

MatrixTransformVector(v) ==
    /\ vector' = transformVector(matrix, v)
    /\ call' = Call("transformVector", "completed", v)
    /\ UNCHANGED << engine, context2d, drawn, console, matrix, matrices,
                    returned, page >>

(***************************************************************************)
(* Matrix4 objects: matrices[i] is the elements array of the i-th object   *)
(* created, which the caller keeps                                         *)
(***************************************************************************)
\* new Matrix4()
Matrix4New ==
    /\ Len(matrices) < MaxMatrices
    /\ matrices' = Append(matrices, _identity)
    /\ returned' = _identity
    /\ call' = Call("new Matrix4", "completed", << >>)
    /\ UNCHANGED << engine, context2d, drawn, console, matrix, vector, page >>

\* matrices[i].identity(): resets the object itself and returns it
Matrix4Identity(i) ==
    /\ i \in 1..Len(matrices)
    /\ matrices' = [matrices EXCEPT ![i] = _identity]
    /\ returned' = _identity
    /\ call' = Call("identity", "completed", << i >>)
    /\ UNCHANGED << engine, context2d, drawn, console, matrix, vector, page >>

\* matrices[i].translate(x, y, z): writes into the object itself, returns it
Matrix4Translate(i, x, y, z) ==
    /\ i \in 1..Len(matrices)
    /\ matrices' = [matrices EXCEPT ![i] = translate(@, x, y, z)]
    /\ returned' = translate(matrices[i], x, y, z)
    /\ call' = Call("translate", "completed", << i, x, y, z >>)
    /\ UNCHANGED << engine, context2d, drawn, console, matrix, vector, page >>

\* Matrix4.rotationX / rotationY / rotationZ (angle), a new object
Matrix4Rotation(axis, angle) ==
    LET m == CASE axis = "X" -> rotationX(angle)
               [] axis = "Y" -> rotationY(angle)
               [] axis = "Z" -> rotationZ(angle)
    IN  /\ Len(matrices) < MaxMatrices
        /\ matrices' = Append(matrices, m)
        /\ returned' = m
        /\ call' = Call("rotation" \o axis, "completed", << angle >>)
        /\ UNCHANGED << engine, context2d, drawn, console, matrix, vector,
                        page >>

\* Matrix4.scale(sx, sy, sz), a new object
Matrix4Scale(sx, sy, sz) ==
    /\ Len(matrices) < MaxMatrices
    /\ matrices' = Append(matrices, scale(sx, sy, sz))
    /\ returned' = scale(sx, sy, sz)
    /\ call' = Call("scale", "completed", << sx, sy, sz >>)
    /\ UNCHANGED << engine, context2d, drawn, console, matrix, vector, page >>

\* mutant of OperandAfterMultiply: the product is written into the operand
OperandOverwritten(elements, result) == result

\* the elements of an operand of multiply when it returns: multiply reads
\* a = this.elements and b = m.elements and writes result.elements only
OperandAfterMultiply(elements, result) == elements

\* matrices[i].multiply(matrices[j]): the product is a new object, which
\* the caller keeps when it holds fewer than MaxMatrices objects
Matrix4Multiply(i, j) ==
    /\ i \in 1..Len(matrices) /\ j \in 1..Len(matrices)
    /\ LET result == multiply(matrices[i], matrices[j])
           after == [k \in 1..Len(matrices) |->
                        IF k \in { i, j }
                        THEN OperandAfterMultiply(matrices[k], result)
                        ELSE matrices[k]]
       IN  /\ matrices' = IF Len(matrices) < MaxMatrices
                          THEN Append(after, result)
                          ELSE Array(after)
           /\ returned' = result
    /\ call' = Call("multiply", "completed",
                    << i, j, matrices[i], matrices[j] >>)
    /\ UNCHANGED << engine, context2d, drawn, console, matrix, vector, page >>

(***************************************************************************)
(* Vector3 on its own: vector is the object normalize is called on         *)
(***************************************************************************)
\* new Vector3(x, y, z).normalize()
VectorNormalize(v) ==
    /\ vector' = v
    /\ returned' = normalize(v)
    /\ call' = Call("normalize", "completed", << v >>)
    /\ UNCHANGED << engine, context2d, drawn, console, matrix, matrices, page >>

(***************************************************************************)
(* ColorUtils on its own                                                   *)
(***************************************************************************)
\* ColorUtils.hslToHex(h, s, l)
HslToHex(h, s, l) ==
    /\ returned' = hslToHex(40 * h, s, 20 * l)
    /\ call' = Call("hslToHex", "completed", << h, s, l >>)
    /\ UNCHANGED << engine, context2d, drawn, console, matrix, vector,
                    matrices, page >>

\* ColorUtils.depthColor(z) with the default depth range
DepthColor(z) ==
    /\ returned' = DepthColorHex(2 * z)
    /\ call' = Call("depthColor", "completed", << z >>)
    /\ UNCHANGED << engine, context2d, drawn, console, matrix, vector,
                    matrices, page >>

(***************************************************************************)
(* Inputs                                                                  *)
(***************************************************************************)
NameCube == << "c", "u", "b", "e" >>

NameCubeCapital == << "C", "u", "b", "e" >>

NameTetrahedron == ShapeKeys[2]

NameTorusUpper == << "T", "O", "R", "U", "S" >>

NameAxes == ShapeKeys[9]

NameIcosahedron == << "i", "c", "o", "s", "a", "h", "e", "d", "r", "o", "n" >>

\* the setShape calls of the engine specification
ShapeCalls ==
    { << NameCube, << >> >>,
      << NameCubeCapital, << 100 >> >>,
      << NameTetrahedron, << >> >>,
      << NameTorusUpper, << 80, 30, MaxSegments, MaxSegments >> >>,
      << NameIcosahedron, << >> >>,
      << KeyConstructor, << >> >>,
      << KeyProto, << >> >> }

\* the transform calls of the engine specification
TransformCalls ==
    { << >>,
      [rotationY |-> 90],
      [rotationX |-> 90, rotationZ |-> 270, translateX |-> 10,
       translateY |-> 20, translateZ |-> -30, scaleX |-> 2, scaleZ |-> 3] }

Canvases == { "null", "myCanvas", "div" }

FocalLengths == { -50, 0, 3000 }

SettingCalls == { "showVertices", "showAxes" } \X BOOLEAN

\* the engine: canvas assignment, settings, setShape, transform and render
Next ==
    \/ \E canvas \in Canvases : SetCanvas(canvas)
    \/ \E kv \in SettingCalls : SetSetting(kv[1], kv[2])
    \/ \E c \in ShapeCalls : SetShape(c[1], c[2])
    \/ \E params \in TransformCalls : Transform(params)
    \/ Render

Spec == Init /\ [][Next]_vars

\* every generator, the parametric ones with MaxSegments segments
AllShapeCalls ==
    { << ShapeKeys[n],
         CASE ShapeIds[n] = "torus" -> << 80, 30, MaxSegments, MaxSegments >>
           [] ShapeIds[n] \in { "sphere", "grid" } -> << 100, MaxSegments >>
           [] OTHER -> << >> >> : n \in 1..Len(ShapeKeys) }

QuarterTurns == { 0, 90 }

\* scale and translation of a call: none, or a non-uniform scale with a shift
Placements ==
    { << << 1, 1, 1 >>, << 0, 0, 0 >> >>,
      << << 2, 3, -1 >>, << 10, 20, -30 >> >> }

\* the transform calls of the transform specification
AllTransformCalls ==
    { << >> } \cup
    { [rotationX |-> rx, rotationY |-> ry, rotationZ |-> rz,
       translateX |-> pl[2][1], translateY |-> pl[2][2], translateZ |-> pl[2][3],
       scaleX |-> pl[1][1], scaleY |-> pl[1][2], scaleZ |-> pl[1][3]] :
         rx \in QuarterTurns, ry \in QuarterTurns, rz \in QuarterTurns,
         pl \in Placements }

\* setShape and transform on every shape
NextTransform ==
    \/ \E c \in AllShapeCalls : SetShape(c[1], c[2])
    \/ \E params \in AllTransformCalls : Transform(params)

SpecTransform == Init /\ [][NextTransform]_vars

\* the ten generator names, each in four spellings
Spellings ==
    UNION { { << n, ShapeKeys[n] >>, << n, toUpperCase(ShapeKeys[n]) >>,
              << n, Capitalised(ShapeKeys[n]) >>, << n, Alternating(ShapeKeys[n]) >> } :
            n \in 1..Len(ShapeKeys) }

\* the argument lists passed after the name: none, a size, two or four values
ArgumentLists(id) ==
    { << >>, << 100 >>, << 37 >> } \cup
    CASE id = "torus" -> { << 80, 30, 16, 8 >>, << 50, 20, 16, 8 >>,
                           << 80, 30, MaxSegments, MaxSegments >> }
      [] id \in { "sphere", "grid" } -> { << 100, MaxSegments >> }
      [] id \in { "pyramid", "prism" } -> { << 60, 90 >> }
      [] OTHER -> { }

\* setShape alone, on every generator
NextShapes ==
    \E sp \in Spellings : \E args \in ArgumentLists(ShapeIds[sp[1]]) :
        SetShape(sp[2], args)

SpecShapes == Init /\ [][NextShapes]_vars

\* the components of a vector are mantissa * 2^exponent for one exponent:
\* ordinary sizes, and sizes whose squares leave the range of the doubles
Mantissas == -1..2

Exponents == { 0, 10, -537, -538, -600, 511, 512 }

Vectors ==
    { Vector3(Double(a, e), Double(b, e), Double(c, e)) :
        a \in Mantissas, b \in Mantissas, c \in Mantissas, e \in Exponents }

NextVector == \E v \in Vectors : VectorNormalize(v)

SpecVector == Init /\ [][NextVector]_vars

\* hues, saturations and lightnesses in their documented ranges
Hues == { 30 * n : n \in 0..12 }

Percentages == { 0, 25, 50, 80, 100 }

\* depths inside and outside the default range minZ = -200 .. maxZ = 200
Depths == { 50 * n : n \in -14..14 }

NextColor ==
    \/ \E h \in Hues : \E s \in Percentages : \E l \in Percentages :
           HslToHex(h, s, l)
    \/ \E z \in Depths : DepthColor(z)

SpecColor == Init /\ [][NextColor]_vars

\* the sizes passed to a generator: none, and any number
GeneratorSizes == { << >>, << 100 >>, << 37 >>, << 0 >>, << -50 >> }

\* every generator with sizes of any sign and, where it takes them, every
\* segment or division count from 1 to MaxRing
SegmentCalls ==
    { << ShapeKeys[n], args >> :
         n \in { k \in 1..Len(ShapeKeys) :
                    ShapeIds[k] \notin { "torus", "sphere", "grid" } },
         args \in GeneratorSizes }
    \cup { << ShapeKeys[7], << r[1], r[2], M, N >> >> :
             r \in { << 80, 30 >>, << 50, 20 >> },
             M \in 1..MaxRing, N \in 1..MaxRing }
    \cup { << name, << size, S >> >> :
             name \in { ShapeKeys[8], ShapeKeys[10] },
             size \in { 100, 37, 250 }, S \in 1..MaxRing }

\* setShape alone, on every generator and segment count
NextSegments == \E c \in SegmentCalls : SetShape(c[1], c[2])

SpecSegments == Init /\ [][NextSegments]_vars

\* the settings a caller assigns before a render
RenderSettings ==
    ({ "showGrid", "showAxes", "showVertices", "depthColoring" } \X BOOLEAN)
    \cup ({ "backgroundColor" } \X { "null", "#000000" })
    \cup ({ "wireframeColor" } \X { "#4f46e5", "#ffffff" })

\* the transform calls before a render: the defaults, and a turned, scaled
\* and shifted placement
RenderTransforms ==
    { << >>,
      [rotationY |-> 90, translateX |-> 10, translateY |-> 20,
       translateZ |-> -30, scaleX |-> 2] }

\* the focal lengths a caller assigns before a render
RenderFocalLengths == { 500, 3000 }

\* the engine with every part of render switched on and off
NextRender ==
    \/ SetCanvas("myCanvas")
    \/ \E kv \in RenderSettings : SetSetting(kv[1], kv[2])
    \/ \E name \in { NameCube, NameTetrahedron } : SetShape(name, << >>)
    \/ \E params \in RenderTransforms : Transform(params)
    \/ \E value \in RenderFocalLengths : SetFocalLength(value)
    \/ Render

SpecRender == Init /\ [][NextRender]_vars

\* the keys pressed, on the page and in an input field
Keys == { "r", "R", " ", "a", "v", "g", "x", "s" }

TagNames == { "BODY", "INPUT" }

\* the slider movements
SliderMoves == { << "fid", 0 >>, << "sx", 50 >> }

\* the checkboxes clicked
Checkboxes == { "depth-coloring", "uniform-scale" }

\* the page driven with the mouse, and the focal length set from a script
NextUI ==
    \/ DOMContentLoaded
    \/ \E id \in timers : Tick(id)
    \/ \E move \in SliderMoves : SliderInput(move[1], move[2])
    \/ \E id \in Checkboxes : CheckboxChange(id)
    \/ ShapeClick(NameTetrahedron)
    \/ ResetClick
    \/ \E value \in FocalLengths : SetFocalLength(value)
    \/ \E value \in FocalLengths : setFocalLength(value)

SpecUI == Init /\ [][NextUI]_vars

\* the page driven from the keyboard
\* app.start() called on the controller of the page
Start ==
    /\ app.created
    /\ \E s \in { start(app, timers) } :
           StoreState(PageState(Renderer, s.app, Page, s.timers),
                      "start", << >>)

\* app.stop() called on the controller of the page
Stop ==
    /\ app.created
    /\ \E s \in { stop(app, timers) } :
           StoreState(PageState(Renderer, s.app, Page, s.timers),
                      "stop", << >>)

NextKeyboard ==
    \/ DOMContentLoaded
    \/ \E key \in Keys : \E tagName \in TagNames : KeyDown(key, tagName)
    \/ \E id \in timers : Tick(id)
    \/ ScreenshotClick

SpecKeyboard == Init /\ [][NextKeyboard]_vars

\* the animation timer: start(), stop(), the Space key among other keys, and
\* the ticks of the timers that run
TimerKeys == { " ", "a", "v", "g" }

NextTimer ==
    \/ DOMContentLoaded
    \/ Start
    \/ Stop
    \/ \E key \in TimerKeys : \E tagName \in TagNames : KeyDown(key, tagName)
    \/ \E id \in timers : Tick(id)

SpecTimer == Init /\ [][NextTimer]_vars

\* the events that lead to a frame or change what the next frame draws:
\* ticks, a shape button, reset, keys, checkboxes
FrameKeys == { "r", " ", "a" }

NextFrames ==
    \/ DOMContentLoaded
    \/ \E id \in timers : Tick(id)
    \/ ShapeClick(NameTetrahedron)
    \/ ResetClick
    \/ \E key \in FrameKeys : \E tagName \in TagNames : KeyDown(key, tagName)
    \/ \E id \in Checkboxes : CheckboxChange(id)

SpecFrames == Init /\ [][NextFrames]_vars

Angles == { 0, 90, 180, 270 }

Points == { Vector3(x, y, z) : x \in -1..1, y \in -1..1, z \in -1..1 }

\* rotation matrices applied to points
NextMatrix ==
    \/ \E axis \in { "X", "Y", "Z" } : \E angle \in Angles :
          MatrixRotation(axis, angle)
    \/ \E v \in Points : MatrixTransformVector(v)

SpecMatrix == Init /\ [][NextMatrix]_vars

\* the Matrix4 objects: constructors, identity and translate chained on the
\* object built last, and multiply on any two objects
NextMatrix4 ==
    \/ Matrix4New
    \/ Matrix4Identity(Len(matrices))
    \/ Matrix4Translate(Len(matrices), 1, 2, 3)
    \/ \E axis \in { "X", "Y", "Z" } : Matrix4Rotation(axis, 90)
    \/ Matrix4Scale(2, 3, -1)
    \/ \E i \in 1..MaxMatrices : \E j \in 1..MaxMatrices :
          Matrix4Multiply(i, j)

SpecMatrix4 == Init /\ [][NextMatrix4]_vars

(***************************************************************************)
(* Claims                                                                  *)
(***************************************************************************)
\* the ten generator names
GeneratorNames == { ShapeKeys[n] : n \in 1..Len(ShapeKeys) }

\* the last call was setShape with a name that is one of the ten generator
\* names once lower-cased (KnownSetShape) or is none of them (UnknownSetShape)
KnownSetShape(c) ==
    c.op = "setShape" /\ toLowerCase(c.arg[1]) \in GeneratorNames

UnknownSetShape(c) ==
    c.op = "setShape" /\ toLowerCase(c.arg[1]) \notin GeneratorNames

\* C1: a setShape call with a name that is none of the ten generator names
\* (lower-cased) leaves the mesh, the cache, the stored transform parameters
\* and the settings as they were, emits one diagnostic and does not throw.
C1_UnknownNameChangesNothing ==
    [][UnknownSetShape(call') =>
          /\ _shape' = _shape
          /\ _transformedVertices' = _transformedVertices
          /\ _transform' = _transform
          /\ _settings' = _settings
          /\ Len(console') = 1
          /\ call'.outcome = "completed"]_vars

\* C2 as claimed: a setShape call with a known name replaces the mesh and
\* discards the cache, so that no vertex computed from the previous mesh is
\* left in it.
C2_SetShapeDiscardsCache ==
    [][KnownSetShape(call') =>
          /\ _shape' = ShapeCreator(ShapesGet(toLowerCase(call'.arg[1])).id,
                                    call'.arg[2])
          /\ _transformedVertices' = << >>]_vars

\* C2 as amended: a setShape call with a known name replaces the mesh and
\* leaves the cache exactly as it was; the cache keeps the vertices computed
\* from the previous mesh (until the next transform call).
C2_SetShapeKeepsCache ==
    [][KnownSetShape(call') =>
          /\ _shape' = ShapeCreator(ShapesGet(toLowerCase(call'.arg[1])).id,
                                    call'.arg[2])
          /\ _transformedVertices' = _transformedVertices]_vars

\* a known setShape has just replaced the mesh by one with another number of
\* vertices, and the cache still holds the previous mesh's vertices
C2_Witness ==
    /\ KnownSetShape(call)
    /\ _transformedVertices # << >>
    /\ Len(_transformedVertices) # Len(_shape.vertices)

\* C3: every render call is either skipped entirely or runs to completion;
\* it never stops part-way, after having cleared or drawn on the surface.
C3_RenderNeverStopsPartWay ==
    call.op = "render" => call.outcome \in { "skipped", "completed" }

\* C4: without a canvas or a drawing context, render issues no drawing
\* operation, reports one diagnostic, does not throw and leaves the engine
\* state and the context unchanged, whatever the cache holds.
C4_RenderWithoutBackendIsNoOp ==
    [][(call'.op = "render" /\ (_ctx = "null" \/ _canvas = "null")) =>
          /\ drawn' = << >>
          /\ Len(console') = 1
          /\ call'.outcome = "skipped"
          /\ engine' = engine
          /\ context2d' = context2d]_vars

\* render was skipped with a canvas element assigned that has no context,
\* the cache being filled and vertex display on
C4_Witness ==
    /\ call.op = "render" /\ call.outcome = "skipped"
    /\ _canvas = "div" /\ _ctx = "null"
    /\ _transformedVertices # << >>
    /\ _settings.showVertices

\* the positions in drawn of the strokes of the main mesh
MeshStrokeAt == { k \in 1..Len(drawn) : drawn[k].group = "mesh" }

\* twice the depth of an edge: the sum of the cached z of its endpoints
Depth2(e) == _transformedVertices[e[1] + 1].z + _transformedVertices[e[2] + 1].z

\* C5: in every completed render the strokes of the main-mesh edges, one per
\* edge of the mesh, are issued in non-decreasing order of edge depth (the
\* mean of the cached z of the two endpoints).
C5_StrokesInDepthOrder ==
    (call.op = "render" /\ call.outcome = "completed") =>
        /\ Cardinality(MeshStrokeAt) = Len(_shape.edges)
        /\ \A a \in MeshStrokeAt : \A b \in MeshStrokeAt :
              a < b => Depth2(drawn[a].edge) <= Depth2(drawn[b].edge)

\* a completed render stroked three edges of distinct depths d1 < d2 < d3 in
\* this order, for a mesh whose edge list is not in depth order
C5_Witness ==
    /\ call.op = "render" /\ call.outcome = "completed"
    /\ \E a \in MeshStrokeAt : \E b \in MeshStrokeAt : \E c \in MeshStrokeAt :
          /\ a < b /\ b < c
          /\ Depth2(drawn[a].edge) < Depth2(drawn[b].edge)
          /\ Depth2(drawn[b].edge) < Depth2(drawn[c].edge)
    /\ \E k \in 1..(Len(_shape.edges) - 1) :
          Depth2(_shape.edges[k]) > Depth2(_shape.edges[k + 1])

\* the perspective factor f / (f + d) of depth d = da2 / 2 is smaller than
\* that of depth db2 / 2: 2f / (2f + da2) < 2f / (2f + db2), f > 0
FactorSmaller(f, da2, db2) ==
    LET da == 2 * f + da2
        db == 2 * f + db2
    IN  \/ (da > 0 /\ db > 0 /\ da > db)
        \/ (da < 0 /\ db < 0 /\ da > db)
        \/ (da < 0 /\ db > 0)

\* C6: of two main-mesh edges of different depth, the one nearer to the
\* camera (larger perspective factor f / (f + depth)) is stroked later.
C6_NearerEdgesStrokedLater ==
    (call.op = "render" /\ call.outcome = "completed") =>
        \A a \in MeshStrokeAt : \A b \in MeshStrokeAt :
            (a < b /\ Depth2(drawn[a].edge) # Depth2(drawn[b].edge)) =>
                FactorSmaller(_focalLength, Depth2(drawn[a].edge),
                              Depth2(drawn[b].edge))

\* C7: after setShape('cube', 100) and transform({rotationY: 90}) the cached
\* vertex 0, originally (100, 100, 100), is (100, 100, -100).
C7_CubeYaw90 ==
    (/\ call.op = "transform" /\ call.outcome = "completed"
     /\ _shape = cube(100)
     /\ _transform = [rotation |-> Vector3(0, 90, 0),
                      translation |-> Vector3(0, 0, 0),
                      scale |-> Vector3(1, 1, 1)]) =>
        _transformedVertices[1] = Vector3(100, 100, -100)

\* C8: with transformVector each rotation constructor is the right-handed
\* rotation about its axis: for +90 degrees rotationZ maps (1,0,0) to
\* (0,1,0), rotationX maps (0,1,0) to (0,0,1), rotationY maps (0,0,1) to
\* (1,0,0).
C8_RightHandedRotations ==
    call.op = "transformVector" =>
        /\ (matrix = rotationZ(90) /\ call.arg = Vector3(1, 0, 0)) =>
               vector = Vector3(0, 1, 0)
        /\ (matrix = rotationX(90) /\ call.arg = Vector3(0, 1, 0)) =>
               vector = Vector3(0, 0, 1)
        /\ (matrix = rotationY(90) /\ call.arg = Vector3(0, 0, 1)) =>
               vector = Vector3(1, 0, 0)

\* v scaled componentwise, then rotated about Z, then Y, then X, each by that
\* matrix's own transformVector, then shifted by the translation
StepByStep(v, t) ==
    LET scaled == Vector3(v.x * t.scale.x, v.y * t.scale.y, v.z * t.scale.z)
        aboutZ == transformVector(rotationZ(t.rotation.z), scaled)
        aboutY == transformVector(rotationY(t.rotation.y), aboutZ)
        aboutX == transformVector(rotationX(t.rotation.x), aboutY)
    IN  Vector3(aboutX.x + t.translation.x,
                aboutX.y + t.translation.y,
                aboutX.z + t.translation.z)

\* C9: after every transform call, cache entry i is mesh vertex i scaled,
\* then rotated about Z, then about Y, then about X, and only then shifted
\* by the translation.
C9_ScaleThenZYXThenTranslate ==
    (call.op = "transform" /\ call.outcome = "completed") =>
        /\ Len(_transformedVertices) = Len(_shape.vertices)
        /\ \A i \in 1..Len(_shape.vertices) :
              _transformedVertices[i] = StepByStep(_shape.vertices[i], _transform)

\* a transform with a quarter turn about each axis, a non-uniform scale and
\* a translation was applied to a mesh
C9_Witness ==
    /\ call.op = "transform" /\ call.outcome = "completed"
    /\ _transform.rotation = Vector3(90, 90, 90)
    /\ _transform.scale = Vector3(2, 3, -1)
    /\ _transform.translation = Vector3(10, 20, -30)
    /\ _shape.name = "Dodecahedron"

\* the snapshot of a transform call with all-default parameters
DefaultTransform ==
    [rotation |-> Vector3(0, 0, 0), translation |-> Vector3(0, 0, 0),
     scale |-> Vector3(1, 1, 1)]

\* C10: for every shape, transform with all-default parameters leaves a
\* cache whose entry i equals the mesh's vertex i, for every index i.
C10_DefaultTransformCopiesMesh ==
    (/\ call.op = "transform" /\ call.outcome = "completed"
     /\ _transform = DefaultTransform) =>
        /\ Len(_transformedVertices) = Len(_shape.vertices)
        /\ \A i \in 1..Len(_shape.vertices) :
              /\ _transformedVertices[i].x = _shape.vertices[i].x
              /\ _transformedVertices[i].y = _shape.vertices[i].y
              /\ _transformedVertices[i].z = _shape.vertices[i].z

\* transform with default parameters was applied to the torus
C10_Witness ==
    /\ call.op = "transform" /\ call.outcome = "completed"
    /\ _transform = DefaultTransform
    /\ _shape.name = "Torus"
    /\ _transformedVertices # << >>

\* the bottom row of a matrix in the row-major layout of multiply
BottomRow(m) == << El(m, 12), El(m, 13), El(m, 14), El(m, 15) >>

\* C11: every Matrix4 obtained from new Matrix4(), identity(), the rotation
\* constructors, scale, translate and multiply has elements[12..15] =
\* [0, 0, 0, 1].
C11_BottomRowIsAffine ==
    \A i \in 1..Len(matrices) : BottomRow(matrices[i]) = << 0, 0, 0, 1 >>

\* (a b) c = a (b c) elementwise
Associative(a, b, c) ==
    LET ab == multiply(a, b)
        bc == multiply(b, c)
    IN  multiply(ab, c) = multiply(a, bc)

\* row r of a times column c of b
RowTimesColumn(a, b, r, c) ==
    a[r * 4 + 1] * b[c + 1] + a[r * 4 + 2] * b[c + 5] +
    a[r * 4 + 3] * b[c + 9] + a[r * 4 + 4] * b[c + 13]

\* C12: multiply is associative on all matrices the caller holds; a multiply
\* call returns the row-times-column product of its operands as they were
\* at the call, and leaves both operands as they were.
C12_MultiplyAssociativeAndPure ==
    /\ \A i \in 1..Len(matrices) : \A j \in 1..Len(matrices) :
          \A k \in 1..Len(matrices) :
              Associative(matrices[i], matrices[j], matrices[k])
    /\ call.op = "multiply" =>
          /\ matrices[call.arg[1]] = call.arg[3]
          /\ matrices[call.arg[2]] = call.arg[4]
          /\ \A r \in 0..3 : \A c \in 0..3 :
                 returned[r * 4 + c + 1] =
                     RowTimesColumn(call.arg[3], call.arg[4], r, c)

\* two constructor-built matrices were multiplied whose product in the
\* other order is a different matrix
C12_Witness ==
    /\ call.op = "multiply"
    /\ Len(matrices) = 2
    /\ matrices[1] = rotationX(90)
    /\ matrices[2] = scale(2, 3, -1)
    /\ returned = multiply(matrices[1], matrices[2])
    /\ returned # multiply(matrices[2], matrices[1])

(***************************************************************************)
(* Mesh sizes and setShape on every generator name                        *)
(***************************************************************************)
\* the generator a completed setShape call names
CalledId ==
    ShapeIds[CHOOSE n \in 1..Len(ShapeKeys) :
        /\ Len(ShapeKeys[n]) = Len(call.arg[1])
        /\ \A k \in 1..Len(ShapeKeys[n]) :
              \/ call.arg[1][k] = ShapeKeys[n][k]
              \/ /\ call.arg[1][k] \in DOMAIN LowerOf
                 /\ LowerOf[call.arg[1][k]] = ShapeKeys[n][k]]

Sizes(mesh) == << Len(mesh.vertices), Len(mesh.edges) >>

\* C13: cube(100) has 8 vertices and 12 edges; dodecahedron(size) has 20
\* vertices, 30 edges and an empty face list for every size; the torus with
\* 16 major and 8 minor segments has 128 vertices and 256 edges
C13_MeshSizes ==
    (call.op = "setShape" /\ call.outcome = "completed") =>
        LET args == call.arg[2]
        IN  /\ (CalledId = "cube" /\ Arg(args, 1, 100) = 100) =>
                   Sizes(_shape) = << 8, 12 >>
            /\ CalledId = "dodecahedron" =>
                   /\ Sizes(_shape) = << 20, 30 >>
                   /\ _shape.faces = << >>
            /\ (CalledId = "torus" /\ Arg(args, 3, 16) = 16 /\ Arg(args, 4, 8) = 8) =>
                   Sizes(_shape) = << 128, 256 >>

C13_Witness ==
    /\ call = Call("setShape", "completed", << ShapeKeys[7], << 50, 20, 16, 8 >> >>)
    /\ Sizes(_shape) = << 128, 256 >>

\* what each generator returns when it is called without arguments
DefaultMesh(id) ==
    CASE id = "cube" -> cube(100)
      [] id = "tetrahedron" -> tetrahedron(100)
      [] id = "octahedron" -> octahedron(100)
      [] id = "pyramid" -> pyramid(100, 150)
      [] id = "prism" -> prism(80, 150)
      [] id = "dodecahedron" -> dodecahedron(60)
      [] id = "torus" -> torus(80, 30, 16, 8)
      [] id = "sphere" -> sphere(100, 12)
      [] id = "axes" -> axes(200)
      [] id = "grid" -> grid(200, 10)

\* C14: setShape with a generator name in any mix of case makes the active
\* mesh the generator's result for the given arguments (the defaults for
\* omitted ones), whatever the mesh was before
C14_SetShapeInstallsGeneratorResult ==
    (call.op = "setShape" /\ call.outcome = "completed") =>
        LET args == call.arg[2]
        IN  /\ _shape = ShapeCreator(CalledId, args)
            /\ args = << >> => _shape = DefaultMesh(CalledId)
            /\ console = << >>

C14_Witness ==
    /\ call = Call("setShape", "completed",
                   << << "s", "P", "h", "E", "r", "E" >>, << >> >>)
    /\ _shape = sphere(100, 12)

(***************************************************************************)
(* Line width of the axes                                                  *)
(***************************************************************************)
\* C15: with showAxes on, each of the three axes edges is stroked with a line
\* width greater than settings.lineWidth, and the main mesh's edges are
\* stroked with settings.lineWidth again
C15_AxesStrokedWider ==
    \A k \in 1..Len(drawn) :
        drawn[k].op = "stroke" =>
            /\ drawn[k].group = "axes" => drawn[k].lineWidth > _settings.lineWidth
            /\ drawn[k].group = "mesh" => drawn[k].lineWidth = _settings.lineWidth

(***************************************************************************)
(* Hex colours                                                             *)
(***************************************************************************)
HexDigits == { HexDigit[n] : n \in 1..16 } \cup { "A", "B", "C", "D", "E", "F" }

IsHexColor(str) ==
    /\ Len(str) = 7
    /\ str[1] = "#"
    /\ \A k \in 2..7 : str[k] \in HexDigits

\* C17: hslToHex returns '#' followed by exactly six hexadecimal digits for
\* every input, including what depthColor passes for a depth outside
\* [minZ, maxZ]
C17_HexColorIsSixDigits ==
    call.op \in { "hslToHex", "depthColor" } => IsHexColor(returned)

(***************************************************************************)
(* Unit vectors                                                            *)
(***************************************************************************)
IsZeroVector(v) == v.x.m = 0 /\ v.y.m = 0 /\ v.z.m = 0

\* the squared magnitude (x^2 + y^2 + z^2) is 1: the components are
\* a / sqrt(root), b / sqrt(root), c / sqrt(root) with a^2 + b^2 + c^2 = root
HasMagnitudeOne(v) ==
    \E root \in { v.x.root, v.y.root, v.z.root } :
        /\ \A c \in { v.x, v.y, v.z } : c.m = 0 \/ (c.e = 0 /\ c.root = root)
        /\ v.x.m * v.x.m + v.y.m * v.y.m + v.z.m * v.z.m = root

\* C18: normalize(v) has magnitude 1 when v is not the zero vector and is
\* the zero vector when v is; v itself is not modified
C18_NormalizeGivesUnitVector ==
    call.op = "normalize" =>
        LET v == call.arg[1]
        IN  /\ IsZeroVector(v) => IsZeroVector(returned)
            /\ ~IsZeroVector(v) => HasMagnitudeOne(returned)
            /\ vector = v

(***************************************************************************)
(* The cache after transform                                               *)
(***************************************************************************)
\* the parameters of the last transform call that stored its state
StoredParams ==
    [rotationX |-> _transform.rotation.x, rotationY |-> _transform.rotation.y,
     rotationZ |-> _transform.rotation.z,
     translateX |-> _transform.translation.x,
     translateY |-> _transform.translation.y,
     translateZ |-> _transform.translation.z,
     scaleX |-> _transform.scale.x, scaleY |-> _transform.scale.y,
     scaleZ |-> _transform.scale.z]

\* C20: immediately after every transform call the cache has exactly one
\* entry per vertex of the active mesh, entry i being the image of mesh
\* vertex i, and nothing left over from an earlier transform or mesh
C20_CacheMatchesActiveMesh ==
    call.op = "transform" =>
        /\ Len(_transformedVertices) = Len(_shape.vertices)
        /\ _transformedVertices = TransformVertices(_shape.vertices, StoredParams)

\* C16: whatever numbers are assigned to focalLength, by the setter, by the
\* legacy setFocalLength or by a frame of the page from the focal-length
\* slider, the engine's focal length, the one render projects with, is at
\* least 1
C16_FocalLengthAtLeastOne == _focalLength >= 1

\* a frame drawn from a focal-length slider at 0 with focal length 1
C16_Witness ==
    /\ call.op = "tick"
    /\ dom.sliders["fid"] < 1
    /\ _focalLength = 1
    /\ drawn # << >>

\* the key of the keydown event just handled, in lower case, when the
\* event's target was not an input field; "" for any other step
Shortcut ==
    IF call'.op = "keydown" /\ call'.arg[2] # "INPUT"
    THEN KeyLower(call'.arg[1]) ELSE ""

\* the step handled a keydown event whose target was an input field
TypedInInput == call'.op = "keydown" /\ call'.arg[2] = "INPUT"

\* what the shortcuts other than S do, and a key typed in an input field
OtherShortcutsAct ==
    /\ Shortcut = " " =>
          /\ app'._isRunning = ~app._isRunning
          /\ app._isRunning => timers' = {}
          /\ ~app._isRunning => timers' # {}
    /\ Shortcut = "r" =>
          /\ dom'.checkboxes = Document.checkboxes
          /\ \A id \in SliderIds \cap DOMAIN DEFAULTS :
                dom'.sliders[id] = DEFAULTS[id]
          /\ app'._autoRotate = DEFAULTS.autoRotate
          /\ app'._autoRotateAngle = [x |-> 0, y |-> 0]
          /\ _settings'.showVertices = DEFAULTS.showVertices
          /\ _settings'.showGrid = DEFAULTS.showGrid
          /\ _settings'.showAxes = DEFAULTS.showAxes
    /\ Shortcut = "a" =>
          /\ app'._autoRotate = ~app._autoRotate
          /\ dom'.checkboxes["auto-rotate"] = app'._autoRotate
    /\ Shortcut = "v" =>
          /\ _settings'.showVertices = ~_settings.showVertices
          /\ dom'.checkboxes["show-vertices"] = _settings'.showVertices
    /\ Shortcut = "g" =>
          /\ _settings'.showGrid = ~_settings.showGrid
          /\ dom'.checkboxes["show-grid"] = _settings'.showGrid
    /\ Shortcut = "x" =>
          /\ _settings'.showAxes = ~_settings.showAxes
          /\ dom'.checkboxes["show-axes"] = _settings'.showAxes
    /\ TypedInInput =>
          /\ UNCHANGED << app, timers, _settings, _shape, _focalLength,
                          _transformedVertices, _transform >>
          /\ dom'.sliders = dom.sliders
          /\ dom'.checkboxes = dom.checkboxes
          /\ dom'.download = << >>

\* C19: every shortcut of the README acts when the key is pressed outside
\* an input field: Space pauses a running animation and resumes a paused
\* one, R resets the controls, A, V, G and X toggle auto-rotate, the
\* vertices, the grid and the axes, S saves a screenshot; a key pressed in
\* an INPUT element does nothing
C19_ShortcutsTriggerTheirActions ==
    [][/\ OtherShortcutsAct
       /\ Shortcut = "s" => dom'.download # << >>]_vars

\* the last call was a render that found a canvas and a context
Rendering == call.op = "render" /\ call.outcome # "skipped"

\* the place of a drawing operation's group in the order of render
GroupRank(group) ==
    CASE group = "clear" -> 0
      [] group = "grid" -> 1
      [] group = "axes" -> 2
      [] group = "mesh" -> 3
      [] group = "vertex" -> 4

\* the number of operations of a group in drawn
GroupSize(group) ==
    Cardinality({ k \in 1..Len(drawn) : drawn[k].group = group })

\* C21: a render with a backend issues exactly one clear first (a solid fill
\* when backgroundColor is set, a transparent clear otherwise), then the grid
\* strokes (only if showGrid), the axes strokes (only if showAxes), the
\* strokes of the main mesh and the vertex discs (only if showVertices); no
\* operation of a later group comes before one of an earlier group
C21_DrawingOrder ==
    Rendering =>
        /\ Len(drawn) >= 1
        /\ GroupSize("clear") = 1
        /\ drawn[1] = IF Truthy(_settings.backgroundColor)
                      THEN [op |-> "fillRect", group |-> "clear",
                            fillStyle |-> _settings.backgroundColor]
                      ELSE [op |-> "clearRect", group |-> "clear",
                            fillStyle |-> "null"]
        /\ \A k \in 1..Len(drawn) : \A l \in k..Len(drawn) :
              GroupRank(drawn[k].group) <= GroupRank(drawn[l].group)
        /\ GroupSize("grid") =
              IF _settings.showGrid THEN Len(grid(300, 10).edges) ELSE 0
        /\ GroupSize("axes") =
              IF _settings.showAxes THEN Len(axes(150).edges) ELSE 0
        /\ call.outcome = "completed" =>
              /\ GroupSize("mesh") = Len(_shape.edges)
              /\ GroupSize("vertex") =
                    IF _settings.showVertices THEN Len(_transformedVertices)
                    ELSE 0

\* a completed render with a background colour, the grid, the axes and the
\* vertices switched on: operations of all five groups
C21_Witness ==
    /\ Rendering
    /\ call.outcome = "completed"
    /\ drawn[1].op = "fillRect"
    /\ \A group \in { "grid", "axes", "mesh", "vertex" } : GroupSize(group) > 0

\* the strokes of a group in drawn, in the order they were issued
StrokesOf(group) == SelectSeq(drawn, LAMBDA o : o.group = group)

\* twice the mean of the cached z values of the two ends of edge e
TwiceMeanZ(e) ==
    _transformedVertices[e[1] + 1].z + _transformedVertices[e[2] + 1].z

\* C22: a render strokes each edge of the main mesh with depthColor of the
\* mean z of its two ends when depthColoring is on and with wireframeColor
\* when it is off; it strokes every grid edge with the neutral colour and
\* the k-th axes edge with the k-th axes colour (red, green, blue), whatever
\* depthColoring and wireframeColor are
C22_StrokeColours ==
    Rendering =>
        /\ \A k \in 1..Len(drawn) :
              /\ drawn[k].group = "mesh" =>
                    drawn[k].strokeStyle =
                        IF _settings.depthColoring
                        THEN depthColor(TwiceMeanZ(drawn[k].edge))
                        ELSE Literal(_settings.wireframeColor)
              /\ drawn[k].group = "grid" =>
                    drawn[k].strokeStyle = Literal("#666666")
        /\ \A k \in 1..Len(StrokesOf("axes")) :
              StrokesOf("axes")[k].strokeStyle =
                  Literal(<< "#ff4444", "#44ff44", "#4444ff" >>[k])

\* a completed render of a transformed mesh with depth colouring off, a
\* wireframe colour of the caller's, the grid and the axes on
C22_Witness ==
    /\ Rendering
    /\ call.outcome = "completed"
    /\ _settings.showGrid /\ _settings.showAxes
    /\ ~_settings.depthColoring
    /\ _settings.wireframeColor = "#ffffff"
    /\ _transformedVertices # _shape.vertices

\* a point of a helper mesh as render draws it: the vertex moved by the
\* stored translation, lowered by drop, and projected
HelperPoint(v, drop) ==
    LET p == _projectVertex(_focalLength,
                 Vector3(v.x + _transform.translation.x,
                         v.y + _transform.translation.y - drop,
                         v.z + _transform.translation.z))
    IN  [xn |-> p.xn, yn |-> p.yn, den |-> p.den]

\* the strokes of a group join the points of the helper mesh, edge by edge
HelperDrawnAt(group, mesh, drop) ==
    /\ Len(StrokesOf(group)) = Len(mesh.edges)
    /\ \A k \in 1..Len(mesh.edges) :
          /\ StrokesOf(group)[k].from =
                HelperPoint(mesh.vertices[mesh.edges[k][1] + 1], drop)
          /\ StrokesOf(group)[k].to =
                HelperPoint(mesh.vertices[mesh.edges[k][2] + 1], drop)

\* a render draws the grid and the axes at the stored translation, the grid
\* 100 lower on y, whatever the rotation, the scale and the mesh are
HelpersFollowStoredTranslation ==
    Rendering =>
        /\ _settings.showGrid => HelperDrawnAt("grid", grid(300, 10), 100)
        /\ _settings.showAxes => HelperDrawnAt("axes", axes(150), 0)

\* the translation a transform call was given
TranslationOf(params) ==
    LET p == Destructure(params)
    IN  Vector3(p.translateX, p.translateY, p.translateZ)

\* the stored translation is zero before the first transform call and the
\* translation of the call after every transform call
StoredTranslationIsLastCalls ==
    /\ call.op = "constructor" => _transform.translation = Vector3(0, 0, 0)
    /\ call.op = "transform" =>
          _transform.translation = TranslationOf(call.arg[1])

\* C23: the grid and the axes are drawn at points that depend only on the
\* translation of the most recent transform call (zero when there was none)
\* and on the focal length: the grid's vertices moved by that translation
\* and 100 lower on y, the axes' vertices moved by it
C23_HelpersFollowLastTranslation ==
    HelpersFollowStoredTranslation /\ StoredTranslationIsLastCalls

\* the mesh has the edge [from, to]
HasEdge(mesh, from, to) ==
    \E k \in 1..Len(mesh.edges) : mesh.edges[k] = << from, to >>

\* setShape has just installed the result of the generator id
Generated(id) ==
    call.op = "setShape" /\ call.outcome = "completed" /\ CalledId = id

\* C24: for all segment counts M, N >= 1 the torus has M * N vertices and
\* 2 * M * N edges, and sample (i, j), the vertex i * N + j, has an edge to
\* (i, (j + 1) mod N) and an edge to ((i + 1) mod M, j): both rings close by
\* wrapping around, without a second vertex at the seam
C24_TorusRingsClose ==
    Generated("torus") =>
        LET M == Arg(call.arg[2], 3, 16)
            N == Arg(call.arg[2], 4, 8)
        IN  /\ Sizes(_shape) = << M * N, 2 * M * N >>
            /\ \A i \in 0..(M - 1) : \A j \in 0..(N - 1) :
                  /\ HasEdge(_shape, i * N + j, i * N + ((j + 1) % N))
                  /\ HasEdge(_shape, i * N + j, ((i + 1) % M) * N + j)

\* a torus of three major and four minor segments, closed in both rings
C24_Witness ==
    /\ Generated("torus")
    /\ call.arg[2] = << 80, 30, 3, 4 >>
    /\ HasEdge(_shape, 3, 0)
    /\ HasEdge(_shape, 8, 0)

\* C25: for every S >= 1 the sphere has (S + 1) * S vertices; every sample
\* (lat, lon) of the rings 0..S has an edge to (lat, (lon + 1) mod S), and
\* every sample of a ring lat < S has an edge to (lat + 1, lon)
C25_SphereRingsAndMeridians ==
    Generated("sphere") =>
        LET S == Arg(call.arg[2], 2, 12)
        IN  /\ Len(_shape.vertices) = (S + 1) * S
            /\ \A lat \in 0..S : \A lon \in 0..(S - 1) :
                  /\ HasEdge(_shape, lat * S + lon, lat * S + ((lon + 1) % S))
                  /\ lat < S =>
                        HasEdge(_shape, lat * S + lon, (lat + 1) * S + lon)

\* C26: every edge of a generated mesh is a pair of indices of its vertices,
\* for every generator, every size and every segment or division count >= 1
C26_EdgesReferToVertices ==
    (call.op = "setShape" /\ call.outcome = "completed") =>
        \A k \in 1..Len(_shape.edges) :
            /\ Len(_shape.edges[k]) = 2
            /\ \A n \in 1..2 :
                  /\ _shape.edges[k][n] >= 0
                  /\ _shape.edges[k][n] < Len(_shape.vertices)

\* a sphere of MaxRing segments, whose last edge ends at the last vertex
C26_Witness ==
    /\ Generated("sphere")
    /\ call.arg[2][2] = MaxRing
    /\ HasEdge(_shape, MaxRing * MaxRing - 1, (MaxRing + 1) * MaxRing - 1)

\* the step is a transform call
TransformStep == call'.op = "transform"

\* C27: a transform call leaves the active mesh's vertices and edges as they
\* were, and the cache after it is the image of the active mesh under that
\* call's parameters, whatever earlier transform calls have left
C27_TransformIsNotCumulative ==
    [][TransformStep =>
          /\ _shape'.vertices = _shape.vertices
          /\ _shape'.edges = _shape.edges
          /\ _transformedVertices' =
                TransformVertices(_shape.vertices, Destructure(call'.arg[1]))]_vars

\* the step is a render call
RenderStep == call'.op = "render"

\* C28: render leaves the active mesh (the order of its edge list included),
\* the transformed-vertex cache, the stored transform parameters, the focal
\* length and the settings as they were, and a render call that directly
\* follows a render call issues the same sequence of drawing operations
C28_RenderChangesNoState ==
    [][RenderStep =>
          /\ _shape' = _shape
          /\ _transformedVertices' = _transformedVertices
          /\ _transform' = _transform
          /\ _focalLength' = _focalLength
          /\ _settings' = _settings
          /\ (call.op = "render" => drawn' = drawn)]_vars

\* a render call has drawn grid, axes and every edge of a mesh whose edges
\* the depth sort had to reorder
C28_Witness ==
    /\ Rendering
    /\ call.outcome = "completed"
    /\ _settings.showGrid /\ _settings.showAxes
    /\ GroupSize("mesh") = Len(_shape.edges)
    /\ EdgesSortedInPlace(_shape.edges,
                          SortEdges(EdgesWithDepth(_shape, _transformedVertices)))
           # _shape.edges

\* at most one interval timer is active, _isRunning is true exactly when
\* _animationId is non-null, and the active timers are exactly the one
\* stop() would clear
TimerConsistent ==
    /\ Cardinality(timers) <= 1
    /\ app._isRunning <=> app._animationId # 0
    /\ timers = IF app._isRunning THEN { app._animationId } ELSE { }

\* C29: after any sequence of start(), stop() and Space key presses at most
\* one interval timer of the controller is active, _isRunning is true exactly
\* when _animationId is non-null, no active timer is out of stop()'s reach,
\* and start() on a running controller and stop() on a stopped one change
\* neither the controller nor the timers
C29_OneTimerAtMost ==
    [][/\ TimerConsistent'
       /\ (call'.op = "start" /\ app._isRunning
              => app' = app /\ timers' = timers)
       /\ (call'.op = "stop" /\ ~app._isRunning
              => app' = app /\ timers' = timers)]_vars

\* start() has returned on a controller whose one timer runs
C29_Witness ==
    /\ call.op = "start"
    /\ app._isRunning
    /\ timers = { app._animationId }

\* the last event was handled by the controller and its handler reached
\* renderer.render(), which clears the canvas before anything else
FrameRendered ==
    /\ call.op \in { "DOMContentLoaded", "tick", "click", "keydown", "change" }
    /\ drawn # << >>

\* the parameters the frame of the last event handed to transform
LastFrameParams ==
    FrameParams(_getSliderValues(dom),
                IF app._autoRotate THEN app._autoRotateAngle
                ELSE [x |-> 0, y |-> 0])

\* C30: whatever events of the controller came before, a handler that calls
\* renderer.render() has called renderer.transform() on the active mesh just
\* before: at the render the cache has one entry per vertex of the active
\* mesh, the image of that vertex under the frame's parameters
C30_RenderFollowsTransform ==
    FrameRendered =>
        /\ Len(_transformedVertices) = Len(_shape.vertices)
        /\ _transformedVertices =
              TransformVerticesMilli(_shape.vertices, LastFrameParams)

\* a timer tick has drawn the tetrahedron, chosen by its button after the
\* frames of the cube
C30_Witness ==
    /\ call.op = "tick"
    /\ drawn # << >>
    /\ _shape.name = tetrahedron(100).name
    /\ Len(_transformedVertices) = 4

====
